---- MODULE Spec2Model ----
(***************************************************************************)
(* AdCampaignManager: a browser-resident campaign authoring tool.          *)
(*                                                                         *)
(* The model follows the source method by method.  Every method is an      *)
(* operator from a "world" record to a world record, so that a handler     *)
(* that calls other methods (login -> notify -> router -> render hook ->   *)
(* editor load) is one composed operator and one atomic action.            *)
(*                                                                         *)
(* The world holds                                                         *)
(*   store        localStorage: key -> JSON text                           *)
(*   now          the millisecond clock read by Date.now()/new Date()      *)
(*   visible      the registered DOM elements without the "hidden" class   *)
(*   bannerForm, marketingForm, landingForm   the editors' input fields    *)
(*   events       what the last handler did, in order (log of its steps)   *)
(*   ret          what the last handler returned                           *)
(*   lastOp       the last handler and its arguments                       *)
(*   edits        how many times the user has edited a control so far      *)
(*   tabs         two further tabs of the browser on the same storage       *)
(*   listeners    the auth-change listeners registered after the page's two *)
(* The text the handlers write into the page (dashboard overview, campaign *)
(* list, previews, the login form's message) is not part of the state.     *)
(* Every handler can run in every state: the services and editors are      *)
(* public objects (main.js also exposes them as window.app).               *)
(* A storage key is a sequence of tokens: 'campaign_' + id is the token    *)
(* "campaign_" followed by the tokens of the id, so that startsWith() is a *)
(* test on the first token.                                                *)
(***************************************************************************)
EXTENDS Integers, Sequences, FiniteSets, TLC

VARIABLES store, now, visible, bannerForm, marketingForm, landingForm,
          events, ret, lastOp, edits, tabs, listeners

vars == <<store, now, visible, bannerForm, marketingForm, landingForm,
          events, ret, lastOp, edits, tabs, listeners>>

\* ---------------------------------------------------------------- bounds
\* The clock runs from 0 to MaxClock milliseconds.
MaxClock == 2
\* The user edits the editors' controls (types into one, clicks a template
\* button) at most MaxEdits times.
MaxEdits == 1
\* When campaigns are created at any instant, a new key is added while fewer
\* than MaxCampaigns campaigns are stored.
MaxCampaigns == 2
\* At most MaxListeners listeners are registered after the page's own two.
MaxListeners == 2

\* ---------------------------------------------------------------- values
\* JavaScript null / undefined.
Null == [null |-> TRUE]
Undefined == [undefined |-> TRUE]

\* a || b on strings: the empty string is falsy
OrElse(a, b) == IF a # "" THEN a ELSE b

\* The sequences over the set S that hold each element once.
Perms(S) ==
    {p \in [1..Cardinality(S) -> S] : \A i, j \in DOMAIN p : p[i] = p[j] => i = j}

\* console.error
LogError(w, what) == [w EXCEPT !.events = Append(@, <<"error", what>>)]

\* The handler ends with an uncaught exception.
Throw(w, what) == [w EXCEPT !.events = Append(@, <<"throw", what>>)]

\* ------------------------------------------------- LocalStorageService
\* An item of localStorage is a text: [json |-> v] is the JSON text of the
\* plain data v, [text |-> s] a text s that is not JSON.
\* JSON.stringify / JSON.parse on the plain data the program stores.
JSONStringify(v) == [json |-> v]
JSONParse(s) == s.json

\* JSON.parse throws a SyntaxError on a text that is not JSON.
ParseThrows(item) == "json" \notin DOMAIN item

\* The values a caller can hand to setItem: [plain |-> v] is plain data,
\* [circular |-> TRUE] an object that refers to itself (JSON.stringify throws
\* a TypeError), [undefined |-> TRUE] is undefined (JSON.stringify returns
\* undefined, which localStorage stores as the text "undefined").
StringifyThrows(value) == "circular" \in DOMAIN value
StoredText(value) ==
    IF "plain" \in DOMAIN value THEN JSONStringify(value.plain)
    ELSE [text |-> "undefined"]

\* localStorage.setItem(key, text): throws a QuotaExceededError, and writes
\* nothing, when the storage has no room (w.quota).
Write(w, key, text) ==
    [w EXCEPT !.store = [k \in DOMAIN w.store \cup {key} |->
                            IF k = key THEN text ELSE w.store[k]]]

\* Seeded fault for C21: setItem without the try/catch.
SetItemValue_Uncaught(w, key, value) ==
    IF StringifyThrows(value) THEN Throw(w, "TypeError")
    ELSE IF w.quota THEN Throw(w, "QuotaExceededError")
    ELSE [Write(w, key, StoredText(value)) EXCEPT !.ret = TRUE]

\* LocalStorageService.setItem on any value: the world after it, .ret the
\* boolean it returns
SetItemValue(w, key, value) ==
    IF StringifyThrows(value) \/ w.quota
    THEN [LogError(w, "Error setting item to Local Storage") EXCEPT !.ret = FALSE]
    ELSE [Write(w, key, StoredText(value)) EXCEPT !.ret = TRUE]

\* LocalStorageService.setItem as the services call it: with plain data, and
\* without looking at what it returns
SetItem(w, key, value) ==
    [SetItemValue(w, key, [plain |-> value]) EXCEPT !.ret = w.ret]

\* LocalStorageService.getItem: item ? JSON.parse(item) : null, and null
\* when JSON.parse throws
GetItem(w, key) ==
    IF key \in DOMAIN w.store /\ w.store[key] # [text |-> ""]
    THEN IF ParseThrows(w.store[key]) THEN Null ELSE JSONParse(w.store[key])
    ELSE Null

\* LocalStorageService.removeItem
RemoveItem(w, key) ==
    [w EXCEPT !.store = [k \in DOMAIN w.store \ {key} |-> w.store[k]]]

\* ---------------------------------------------------------- UserService
USERS_KEY == <<"app_users">>

\* UserService._getUsers: getItem(USERS_KEY) || []
GetUsers(w) ==
    IF USERS_KEY \in DOMAIN w.store /\ ~ParseThrows(w.store[USERS_KEY])
    THEN GetItem(w, USERS_KEY) ELSE <<>>

\* UserService._saveUsers
SaveUsers(w, users) == SetItem(w, USERS_KEY, users)

InitialUser == [username |-> "testuser", password |-> "password123"]

\* Seeded fault for C19: createInitialUser without the test for an empty
\* directory.
CreateInitialUser_Unconditional(w) ==
    SaveUsers(w, Append(GetUsers(w), InitialUser))

\* UserService.createInitialUser
CreateInitialUser(w) ==
    LET users == GetUsers(w) IN
    IF Len(users) = 0 THEN SaveUsers(w, Append(users, InitialUser)) ELSE w

\* UserService.getUser: users.find(user => user.username === username)
GetUser(w, username) ==
    LET users == GetUsers(w)
        hits == {i \in 1..Len(users) : users[i].username = username}
    IN IF hits = {} THEN Undefined
       ELSE users[CHOOSE i \in hits : \A j \in hits : i <= j]

\* Seeded fault for C3: saveUser without the look-up of the username.
SaveUser_NoDuplicateCheck(w, user) ==
    [SaveUsers(w, Append(GetUsers(w), user)) EXCEPT !.ret = TRUE]

\* UserService.saveUser: the world after the call, .ret the returned flag
SaveUser(w, user) ==
    LET users == GetUsers(w) IN
    IF \E i \in 1..Len(users) : users[i].username = user.username
    THEN [w EXCEPT !.ret = FALSE]
    ELSE [SaveUsers(w, Append(users, user)) EXCEPT !.ret = TRUE]

\* ------------------------------------------------------ CampaignService
ACTIVE_CAMPAIGN_KEY == <<"active_campaign">>
CAMPAIGN_PREFIX == <<"campaign_">>

\* new Date().toISOString() and new Date(iso): the text of an instant and back
ToISOString(t) == <<"iso", t>>
DateValue(iso) == iso[2]

\* Seeded fault for C24: an id that counts the stored campaigns.
GenerateCampaignId_Counter(w) ==
    <<"campaign_", Cardinality({k \in DOMAIN w.store : k[1] = "campaign_"})>>

\* CampaignService._generateCampaignId: 'campaign_' + Date.now()
GenerateCampaignId(w) == <<"campaign_", w.now>>

\* key.startsWith(prefix), on token sequences
StartsWith(key, prefix) ==
    Len(key) >= Len(prefix) /\ SubSeq(key, 1, Len(prefix)) = prefix

\* { ...rec, field: value }
With(rec, field, value) ==
    [f \in DOMAIN rec \cup {field} |-> IF f = field THEN value ELSE rec[f]]

\* CampaignService.getActiveCampaign
GetActiveCampaign(w) == GetItem(w, ACTIVE_CAMPAIGN_KEY)

\* CampaignService.setActiveCampaign: stamps lastUpdated on the copy it stores
SetActiveCampaign(w, campaignData) ==
    SetItem(w, ACTIVE_CAMPAIGN_KEY,
            With(campaignData, "lastUpdated", ToISOString(w.now)))

\* Seeded fault for C16: saveCampaign that keeps a record already stored
\* under the id.
SaveCampaign_KeepsStored(w, campaign) ==
    IF CAMPAIGN_PREFIX \o campaign.id \in DOMAIN w.store THEN w
    ELSE SetItem(w, CAMPAIGN_PREFIX \o campaign.id, campaign)

\* CampaignService.saveCampaign
SaveCampaign(w, campaign) ==
    SetItem(w, CAMPAIGN_PREFIX \o campaign.id, campaign)

\* The record createCampaign builds.
NewCampaign(w, campaignName) ==
    [id |-> GenerateCampaignId(w),
     name |-> campaignName,
     status |-> "Draft",
     assets |-> [banner |-> Null, marketingPage |-> Null, landingPage |-> Null],
     createdAt |-> ToISOString(w.now)]

\* Seeded fault for C18: createCampaign that returns the record without
\* storing it.
CreateCampaign_NotStored(w, campaignName) ==
    [w EXCEPT !.ret = NewCampaign(w, campaignName)]

\* CampaignService.createCampaign: the world after it; .ret the new record
CreateCampaign(w, campaignName) ==
    [SaveCampaign(w, NewCampaign(w, campaignName))
        EXCEPT !.ret = NewCampaign(w, campaignName)]

\* Seeded fault for C27: updateCampaignAsset that writes the active pointer
\* as well when it names the campaign.
UpdateCampaignAsset_AlsoPointer(w, campaignId, assetType, assetData) ==
    LET campaignKey == CAMPAIGN_PREFIX \o campaignId
        campaign == GetItem(w, campaignKey)
    IN IF /\ campaign # Null
          /\ "assets" \in DOMAIN campaign
          /\ assetType \in DOMAIN campaign.assets
       THEN LET updated == [campaign EXCEPT !.assets[assetType] = assetData]
                saved == SetItem(w, campaignKey, updated)
            IN IF GetActiveCampaign(w) # Null /\ GetActiveCampaign(w).id = campaignId
               THEN SetActiveCampaign(saved, updated)
               ELSE saved
       ELSE [w EXCEPT !.events = Append(@, <<"error", "campaign or asset type not found">>)]

\* CampaignService.updateCampaignAsset
UpdateCampaignAsset(w, campaignId, assetType, assetData) ==
    LET campaignKey == CAMPAIGN_PREFIX \o campaignId
        campaign == GetItem(w, campaignKey)
    IN IF /\ campaign # Null
          /\ "assets" \in DOMAIN campaign
          /\ assetType \in DOMAIN campaign.assets
       THEN SetItem(w, campaignKey,
                    [campaign EXCEPT !.assets[assetType] = assetData])
       ELSE [w EXCEPT !.events = Append(@, <<"error", "campaign or asset type not found">>)]

\* The keys getAllCampaigns keeps: those that start with the prefix and
\* whose item parses to a value.
CampaignKeys(w) ==
    {k \in DOMAIN w.store : StartsWith(k, CAMPAIGN_PREFIX) /\ GetItem(w, k) # Null}

\* The comparator (a, b) => new Date(b.lastUpdated) - new Date(a.lastUpdated).
\* A record without lastUpdated gives an invalid date and the difference is
\* NaN, which the sort takes as +0.
HasDate(c) == "lastUpdated" \in DOMAIN c
Compare(a, b) ==
    IF HasDate(a) /\ HasDate(b)
    THEN DateValue(b.lastUpdated) - DateValue(a.lastUpdated)
    ELSE 0

\* ECMAScript's conditions for a consistent comparator over the elements S.
ConsistentComparator(S) ==
    /\ \A a \in S : Compare(a, a) = 0
    /\ \A a, b \in S : Compare(a, b) = 0 => Compare(b, a) = 0
    /\ \A a, b, c \in S :
         /\ (Compare(a, b) = 0 /\ Compare(b, c) = 0) => Compare(a, c) = 0
         /\ (Compare(a, b) < 0 /\ Compare(b, c) < 0) => Compare(a, c) < 0
         /\ (Compare(a, b) > 0 /\ Compare(b, c) > 0) => Compare(a, c) > 0

\* Array.prototype.sort with Compare leaves q: no element of q comes before
\* one the comparator puts ahead of it.  (The sort is stable, and elements
\* that compare equal stay in the order the keys were enumerated in.)
InComparatorOrder(q) ==
    \A i, j \in DOMAIN q : i < j => Compare(q[i], q[j]) <= 0

\* CampaignService.getAllCampaigns: every list the call may return.  The
\* order in which localStorage.key(i) enumerates the keys is up to the
\* browser, so among records that compare equal every order can come out;
\* the order a sort produces with an inconsistent comparator is up to the
\* engine.
GetAllCampaigns(w) ==
    LET found == {GetItem(w, k) : k \in CampaignKeys(w)}
        keyOrders == Perms(found)
    IN IF ConsistentComparator(found)
       THEN {q \in keyOrders : InComparatorOrder(q)}
       ELSE keyOrders

\* --------------------------------------------------------------- editors
\* What a form control shows after `input.value = rec.field`: the control
\* turns what it is given into text, a missing field reads back "undefined".
DomValue(rec, field) == IF field \in DOMAIN rec THEN rec[field] ELSE "undefined"

TemplateIds == {"template1", "template2", "template3"}

\* ---- BannerEditor
\* The presets of BannerEditor._applyTemplate (fontSize is the text the
\* number input shows for 24, 28, 20).
BannerTemplates ==
    [template1 |-> [bgColor |-> "#4a90e2", textColor |-> "#ffffff",
                    fontSize |-> "24", fontFamily |-> "Arial, sans-serif"],
     template2 |-> [bgColor |-> "#f9c74f", textColor |-> "#333333",
                    fontSize |-> "28", fontFamily |-> "Verdana, sans-serif"],
     template3 |-> [bgColor |-> "#e76f51", textColor |-> "#f4f1de",
                    fontSize |-> "20", fontFamily |-> "Georgia, serif"]]

\* BannerEditor._applyTemplate
BannerApplyTemplate(w, templateName) ==
    IF templateName \in DOMAIN BannerTemplates
    THEN LET t == BannerTemplates[templateName] IN
         [w EXCEPT !.bannerForm.bgColor = t.bgColor,
                   !.bannerForm.textColor = t.textColor,
                   !.bannerForm.fontSize = t.fontSize,
                   !.bannerForm.fontFamily = t.fontFamily]
    ELSE w

\* Seeded fault for C8: loadBanner that leaves the text control alone.
LoadBanner_KeepsText(w) ==
    LET activeCampaign == GetActiveCampaign(w) IN
    IF /\ activeCampaign # Null
       /\ "assets" \in DOMAIN activeCampaign
       /\ activeCampaign.assets.banner # Null
    THEN LET savedBanner == activeCampaign.assets.banner IN
         [w EXCEPT !.bannerForm =
             [type |-> DomValue(savedBanner, "type"),
              text |-> w.bannerForm.text,
              bgColor |-> DomValue(savedBanner, "bgColor"),
              textColor |-> DomValue(savedBanner, "textColor"),
              fontSize |-> DomValue(savedBanner, "fontSize"),
              fontFamily |-> DomValue(savedBanner, "fontFamily")]]
    ELSE [BannerApplyTemplate(w, "template1")
            EXCEPT !.bannerForm.text = "Your Ad Text Here"]

\* BannerEditor.loadBanner
LoadBanner(w) ==
    LET activeCampaign == GetActiveCampaign(w) IN
    IF /\ activeCampaign # Null
       /\ "assets" \in DOMAIN activeCampaign
       /\ activeCampaign.assets.banner # Null
    THEN LET savedBanner == activeCampaign.assets.banner IN
         [w EXCEPT !.bannerForm =
             [type |-> DomValue(savedBanner, "type"),
              text |-> DomValue(savedBanner, "text"),
              bgColor |-> DomValue(savedBanner, "bgColor"),
              textColor |-> DomValue(savedBanner, "textColor"),
              fontSize |-> DomValue(savedBanner, "fontSize"),
              fontFamily |-> DomValue(savedBanner, "fontFamily")]]
    ELSE [BannerApplyTemplate(w, "template1")
            EXCEPT !.bannerForm.text = "Your Ad Text Here"]

\* The bannerData object saveBanner builds from the controls (16 is kept as
\* the text "16" that the control shows for it).
BannerData(w) ==
    [type |-> OrElse(w.bannerForm.type, "square"),
     text |-> OrElse(w.bannerForm.text, ""),
     bgColor |-> OrElse(w.bannerForm.bgColor, "#ffffff"),
     textColor |-> OrElse(w.bannerForm.textColor, "#000000"),
     fontSize |-> OrElse(w.bannerForm.fontSize, "16"),
     fontFamily |-> OrElse(w.bannerForm.fontFamily, "sans-serif")]

\* Seeded fault for C9: saveBanner that writes the banner into every stored
\* campaign.
SaveBanner_EveryCampaign(w) ==
    LET activeCampaign == GetActiveCampaign(w) IN
    IF activeCampaign = Null
    THEN LogError(w, "No active campaign to save to.")
    ELSE LET updated == With(activeCampaign, "assets",
                             With(activeCampaign.assets, "banner", BannerData(w)))
             everywhere ==
                 [w EXCEPT !.store =
                     [k \in DOMAIN @ |->
                         IF k \in CampaignKeys(w)
                         THEN JSONStringify(
                                 With(GetItem(w, k), "assets",
                                      With(GetItem(w, k).assets, "banner", BannerData(w))))
                         ELSE @[k]]]
         IN SetActiveCampaign(everywhere, updated)

\* BannerEditor.saveBanner
SaveBanner(w) ==
    LET activeCampaign == GetActiveCampaign(w) IN
    IF activeCampaign = Null
    THEN LogError(w, "No active campaign to save to.")
    ELSE IF "assets" \notin DOMAIN activeCampaign
    THEN Throw(w, "TypeError: activeCampaign.assets is undefined")
    ELSE LET updated == With(activeCampaign, "assets",
                             With(activeCampaign.assets, "banner", BannerData(w)))
         IN SetActiveCampaign(SaveCampaign(w, updated), updated)

\* BannerEditor.render (the controls exist)
BannerRender(w) == LoadBanner(w)

\* ---- MarketingPageEditor
MarketingDefaults ==
    [template1 |-> [title |-> "Welcome to Our New Campaign!",
                    paragraph1 |-> "Discover amazing new offers and products designed just for you. Click below to learn more!",
                    imageUrl |-> "https://placehold.co/600x200/cccccc/333333?text=Your+Image",
                    bgColor |-> "#f8f8f8", textColor |-> "#333333"],
     template2 |-> [title |-> "Exclusive Offer Just For You!",
                    paragraph1 |-> "Don't miss out on our limited-time discounts. Get ready for savings that will surprise you!",
                    imageUrl |-> "https://placehold.co/600x300/aaddff/000000?text=Special+Deal",
                    bgColor |-> "#e0f7fa", textColor |-> "#004d40"],
     template3 |-> [title |-> "Quick Update from Our Team",
                    paragraph1 |-> "We've got exciting news coming soon. Stay tuned for more information.",
                    imageUrl |-> "https://placehold.co/200x150/ffcccb/880000?text=News",
                    bgColor |-> "#fffde7", textColor |-> "#424242"]]

\* MarketingPageEditor._applyTemplate: the presets go in, then the title,
\* paragraph and image the controls held before are put back when non-empty.
MarketingApplyTemplate(w, templateId) ==
    LET currentTitle == w.marketingForm.title
        currentParagraph1 == w.marketingForm.paragraph1
        currentImageUrl == w.marketingForm.imageUrl
        filled == IF templateId \in DOMAIN MarketingDefaults
                  THEN LET d == MarketingDefaults[templateId] IN
                       [w.marketingForm EXCEPT !.title = d.title,
                                               !.paragraph1 = d.paragraph1,
                                               !.imageUrl = d.imageUrl,
                                               !.bgColor = d.bgColor,
                                               !.textColor = d.textColor]
                  ELSE w.marketingForm
    IN [w EXCEPT !.marketingForm =
          [filled EXCEPT
             !.title = IF currentTitle # "" THEN currentTitle ELSE @,
             !.paragraph1 = IF currentParagraph1 # "" THEN currentParagraph1 ELSE @,
             !.imageUrl = IF currentImageUrl # "" THEN currentImageUrl ELSE @]]

\* The template buttons' click handler of the marketing editor.
MarketingClickTemplate(w, templateId) ==
    MarketingApplyTemplate([w EXCEPT !.marketingForm.templateId = templateId],
                           templateId)

\* MarketingPageEditor.loadPage
MarketingLoadPage(w) ==
    LET activeCampaign == GetActiveCampaign(w) IN
    IF /\ activeCampaign # Null
       /\ "assets" \in DOMAIN activeCampaign
       /\ activeCampaign.assets.marketingPage # Null
    THEN LET savedPage == activeCampaign.assets.marketingPage IN
         [w EXCEPT !.marketingForm =
             [templateId |-> savedPage.templateId,
              title |-> DomValue(savedPage, "title"),
              paragraph1 |-> DomValue(savedPage, "paragraph1"),
              imageUrl |-> DomValue(savedPage, "imageUrl"),
              bgColor |-> DomValue(savedPage, "bgColor"),
              textColor |-> DomValue(savedPage, "textColor")]]
    ELSE MarketingApplyTemplate([w EXCEPT !.marketingForm.templateId = "template1"],
                                "template1")

\* The pageData object MarketingPageEditor.savePage builds.
MarketingPageData(w) ==
    [templateId |-> w.marketingForm.templateId,
     title |-> OrElse(w.marketingForm.title, ""),
     paragraph1 |-> OrElse(w.marketingForm.paragraph1, ""),
     imageUrl |-> OrElse(w.marketingForm.imageUrl, ""),
     bgColor |-> OrElse(w.marketingForm.bgColor, "#f8f8f8"),
     textColor |-> OrElse(w.marketingForm.textColor, "#333333")]

\* MarketingPageEditor.savePage
MarketingSavePage(w) ==
    LET activeCampaign == GetActiveCampaign(w) IN
    IF activeCampaign = Null
    THEN LogError(w, "No active campaign to save to.")
    ELSE IF "assets" \notin DOMAIN activeCampaign
    THEN Throw(w, "TypeError: activeCampaign.assets is undefined")
    ELSE LET updated == With(activeCampaign, "assets",
                             With(activeCampaign.assets, "marketingPage", MarketingPageData(w)))
         IN SetActiveCampaign(SaveCampaign(w, updated), updated)

\* MarketingPageEditor.render
MarketingRender(w) == MarketingLoadPage(w)

\* ---- LandingPageEditor
LandingDefaults ==
    [template1 |-> [title |-> "Boost Your Business!",
                    paragraph |-> "Learn how our innovative solutions can help you reach new customers and grow your revenue. Sign up now for a free consultation!",
                    imageUrl |-> "https://placehold.co/800x400/eeeeee/333333?text=Your+Amazing+Product",
                    ctaText |-> "Get Started Today", ctaLink |-> "#signup",
                    bgColor |-> "#e0f2f7", textColor |-> "#0a2a43"],
     template2 |-> [title |-> "Limited Time Offer!",
                    paragraph |-> "Grab this incredible deal before it's gone! High-quality products at unbeatable prices.",
                    imageUrl |-> "https://placehold.co/800x400/ffe0b2/8d6e63?text=Special+Discount",
                    ctaText |-> "Claim Your Discount", ctaLink |-> "#discount",
                    bgColor |-> "#fce4ec", textColor |-> "#4a148c"],
     template3 |-> [title |-> "Join Our Community",
                    paragraph |-> "Become part of a thriving community of professionals. Share ideas, gain insights, and connect with peers.",
                    imageUrl |-> "https://placehold.co/800x400/c8e6c9/2e7d32?text=Community+Hub",
                    ctaText |-> "Join Now", ctaLink |-> "#join",
                    bgColor |-> "#e8f5e9", textColor |-> "#1b5e20"]]

\* LandingPageEditor._applyTemplate
LandingApplyTemplate(w, templateId) ==
    LET currentTitle == w.landingForm.title
        currentParagraph == w.landingForm.paragraph
        currentImageUrl == w.landingForm.imageUrl
        filled == IF templateId \in DOMAIN LandingDefaults
                  THEN LET d == LandingDefaults[templateId] IN
                       [w.landingForm EXCEPT !.title = d.title,
                                             !.paragraph = d.paragraph,
                                             !.imageUrl = d.imageUrl,
                                             !.ctaText = d.ctaText,
                                             !.ctaLink = d.ctaLink,
                                             !.bgColor = d.bgColor,
                                             !.textColor = d.textColor]
                  ELSE w.landingForm
    IN [w EXCEPT !.landingForm =
          [filled EXCEPT
             !.title = IF currentTitle # "" THEN currentTitle ELSE @,
             !.paragraph = IF currentParagraph # "" THEN currentParagraph ELSE @,
             !.imageUrl = IF currentImageUrl # "" THEN currentImageUrl ELSE @]]

\* The template buttons' click handler of the landing editor.
LandingClickTemplate(w, templateId) ==
    LandingApplyTemplate([w EXCEPT !.landingForm.templateId = templateId],
                         templateId)

\* LandingPageEditor.loadPage
LandingLoadPage(w) ==
    LET activeCampaign == GetActiveCampaign(w) IN
    IF /\ activeCampaign # Null
       /\ "assets" \in DOMAIN activeCampaign
       /\ activeCampaign.assets.landingPage # Null
    THEN LET savedPage == activeCampaign.assets.landingPage IN
         [w EXCEPT !.landingForm =
             [templateId |-> savedPage.templateId,
              title |-> DomValue(savedPage, "title"),
              paragraph |-> DomValue(savedPage, "paragraph"),
              imageUrl |-> DomValue(savedPage, "imageUrl"),
              ctaText |-> DomValue(savedPage, "ctaText"),
              ctaLink |-> DomValue(savedPage, "ctaLink"),
              bgColor |-> DomValue(savedPage, "bgColor"),
              textColor |-> DomValue(savedPage, "textColor"),
              includeLeadForm |-> savedPage.includeLeadForm]]
    ELSE [LandingApplyTemplate([w EXCEPT !.landingForm.templateId = "template1"],
                               "template1")
            EXCEPT !.landingForm.includeLeadForm = FALSE]

\* The pageData object LandingPageEditor.savePage builds.
LandingPageData(w) ==
    [templateId |-> w.landingForm.templateId,
     title |-> OrElse(w.landingForm.title, ""),
     paragraph |-> OrElse(w.landingForm.paragraph, ""),
     imageUrl |-> OrElse(w.landingForm.imageUrl, ""),
     ctaText |-> OrElse(w.landingForm.ctaText, ""),
     ctaLink |-> OrElse(w.landingForm.ctaLink, "#"),
     bgColor |-> OrElse(w.landingForm.bgColor, "#e0f2f7"),
     textColor |-> OrElse(w.landingForm.textColor, "#0a2a43"),
     includeLeadForm |-> w.landingForm.includeLeadForm]

\* Seeded fault for C5: savePage that keeps the page under a key of its
\* own when no campaign is active.
LandingSavePage_StandaloneKey(w) ==
    LET activeCampaign == GetActiveCampaign(w) IN
    IF activeCampaign = Null
    THEN SetItem(w, <<"current_landing_page">>, LandingPageData(w))
    ELSE LET updated == With(activeCampaign, "assets",
                             With(activeCampaign.assets, "landingPage", LandingPageData(w)))
         IN SetActiveCampaign(SaveCampaign(w, updated), updated)

\* LandingPageEditor.savePage
LandingSavePage(w) ==
    LET activeCampaign == GetActiveCampaign(w) IN
    IF activeCampaign = Null
    THEN LogError(w, "No active campaign to save to.")
    ELSE IF "assets" \notin DOMAIN activeCampaign
    THEN Throw(w, "TypeError: activeCampaign.assets is undefined")
    ELSE LET updated == With(activeCampaign, "assets",
                             With(activeCampaign.assets, "landingPage", LandingPageData(w)))
         IN SetActiveCampaign(SaveCampaign(w, updated), updated)

\* LandingPageEditor.render
LandingRender(w) == LandingLoadPage(w)

\* ---------------------------------------------------------- AuthService
CURRENT_USER_KEY == <<"current_user">>

\* AuthService.getLoggedInUser
GetLoggedInUser(w) == GetItem(w, CURRENT_USER_KEY)

\* ---------------------------------------------------- NavigationService
\* UIController._registerScreens: the registry
Screens ==
    {"login-screen", "main-app-content", "dashboard-screen",
     "banner-editor-screen", "marketing-editor-screen", "landing-editor-screen"}

Log(w, e) == [w EXCEPT !.events = Append(@, e)]

\* NavigationService._hideAllScreens
HideAllScreens(w) == Log([w EXCEPT !.visible = @ \ Screens], <<"hide-all">>)

\* The switch of _showScreen: the render hook of the screen, if it has one.
\* (displayActiveCampaign only rewrites the dashboard's text.)
RenderHook(w, screenId) ==
    CASE screenId = "banner-editor-screen" ->
            BannerRender(Log(w, <<"render", screenId>>))
      [] screenId = "marketing-editor-screen" ->
            MarketingRender(Log(w, <<"render", screenId>>))
      [] screenId = "landing-editor-screen" ->
            LandingRender(Log(w, <<"render", screenId>>))
      [] screenId = "dashboard-screen" -> Log(w, <<"render", screenId>>)
      [] OTHER -> w

\* Seeded fault for C11: _showScreen without the call of _hideAllScreens.
ShowScreen_NoHide(w, screenId) ==
    IF screenId \in Screens
    THEN LET shown == Log([w EXCEPT !.visible = @ \cup {screenId}],
                          <<"show", screenId>>)
             shell == IF screenId # "login-screen"
                      THEN [shown EXCEPT !.visible = @ \cup {"main-app-content"}]
                      ELSE [shown EXCEPT !.visible = @ \ {"main-app-content"}]
         IN RenderHook(shell, screenId)
    ELSE LogError(w, "screen not registered")

\* NavigationService._showScreen
ShowScreen(w, screenId) ==
    LET hidden == HideAllScreens(w) IN
    IF screenId \in Screens
    THEN LET shown == Log([hidden EXCEPT !.visible = @ \cup {screenId}],
                          <<"show", screenId>>)
             shell == IF screenId # "login-screen"
                      THEN [shown EXCEPT !.visible = @ \cup {"main-app-content"}]
                      ELSE [shown EXCEPT !.visible = @ \ {"main-app-content"}]
         IN RenderHook(shell, screenId)
    ELSE LogError(hidden, "screen not registered")

\* NavigationService.goToLogin
GoToLogin(w) == ShowScreen(w, "login-screen")

\* NavigationService.goToDashboard
GoToDashboard(w) ==
    IF GetLoggedInUser(w) # Null THEN ShowScreen(w, "dashboard-screen")
    ELSE GoToLogin(w)

\* NavigationService.goToBannerEditor
GoToBannerEditor(w) ==
    IF GetLoggedInUser(w) # Null THEN ShowScreen(w, "banner-editor-screen")
    ELSE GoToLogin(w)

\* NavigationService.goToMarketingPageEditor
GoToMarketingPageEditor(w) ==
    IF GetLoggedInUser(w) # Null THEN ShowScreen(w, "marketing-editor-screen")
    ELSE GoToLogin(w)

\* Seeded fault for C10: goToLandingPageEditor without the session test.
GoToLandingPageEditor_NoSessionCheck(w) == ShowScreen(w, "landing-editor-screen")

\* NavigationService.goToLandingPageEditor
GoToLandingPageEditor(w) ==
    IF GetLoggedInUser(w) # Null THEN ShowScreen(w, "landing-editor-screen")
    ELSE GoToLogin(w)

\* ------------------------------------------------ auth-change listeners
\* The listener UIController._bindEvents registers (first: the controller is
\* constructed before setUIController runs).
DashboardRefreshListener(w, user) ==
    IF user # Null /\ "dashboard-screen" \in w.visible
    THEN Log(w, <<"render", "dashboard-screen">>)
    ELSE w

\* The listener NavigationService.setUIController registers (second).
RouterListener(w, user) ==
    IF user # Null THEN GoToDashboard(w) ELSE GoToLogin(w)

\* Seeded fault for C15: the router's listener is called first.
NotifyAuthChange_RouterFirst(w, user) ==
    LET first == RouterListener(Log(w, <<"notify", "router", user>>), user)
    IN DashboardRefreshListener(Log(first, <<"notify", "controller", user>>), user)

\* A step of the handler that led to w ended with an uncaught exception.
Thrown(w) == \E i \in DOMAIN w.events : w.events[i][1] = "throw"

\* AuthService.onAuthChange: a listener registered through window.app, after
\* the page's own two.  [id |-> name, throws |-> whether it throws when called]
OnAuthChange(w, listener) == [w EXCEPT !.listeners = Append(@, listener)]

\* Seeded fault for C23: every listener is called, whatever the ones before
\* it did.
NotifyFrom_CallsAll(w, user, i) ==
    LET log == [j \in 1..(Len(w.listeners) - i + 1) |->
                   <<"notify", w.listeners[j + i - 1].id, user>>]
    IN [w EXCEPT !.events = @ \o log]

\* The forEach of _notifyAuthChange from the i-th of the listeners registered
\* later: an exception of a listener ends the loop.
RECURSIVE NotifyFrom(_, _, _)
NotifyFrom(w, user, i) ==
    IF i > Len(w.listeners) THEN w
    ELSE LET called == Log(w, <<"notify", w.listeners[i].id, user>>) IN
         IF w.listeners[i].throws THEN Throw(called, w.listeners[i].id)
         ELSE NotifyFrom(called, user, i + 1)

\* AuthService._notifyAuthChange: forEach over the listeners in the order
\* they were registered.
NotifyAuthChange(w, user) ==
    LET first == DashboardRefreshListener(Log(w, <<"notify", "controller", user>>), user)
        second == RouterListener(Log(first, <<"notify", "router", user>>), user)
    IN NotifyFrom(second, user, 1)

\* Seeded fault for C1: login that does not compare the password.
Login_NoPasswordCheck(w, username, password) ==
    LET user == GetUser(w, username) IN
    IF user # Undefined
    THEN LET marker == [username |-> user.username] IN
         [NotifyAuthChange(SetItem(w, CURRENT_USER_KEY, marker), marker)
            EXCEPT !.ret = TRUE]
    ELSE [w EXCEPT !.ret = FALSE]

\* Seeded fault for C12: login that notifies before it stores the marker.
Login_NotifyBeforeStore(w, username, password) ==
    LET user == GetUser(w, username) IN
    IF user # Undefined /\ user.password = password
    THEN LET marker == [username |-> user.username] IN
         [SetItem(NotifyAuthChange(w, marker), CURRENT_USER_KEY, marker)
            EXCEPT !.ret = TRUE]
    ELSE [w EXCEPT !.ret = FALSE]

\* Seeded fault for C29: login that looks at what setItem returned.
Login_ChecksWrite(w, username, password) ==
    LET user == GetUser(w, username) IN
    IF user # Undefined /\ user.password = password
    THEN LET marker == [username |-> user.username]
             stored == SetItemValue(w, CURRENT_USER_KEY, [plain |-> marker])
         IN IF stored.ret
            THEN [NotifyAuthChange([stored EXCEPT !.ret = w.ret], marker)
                     EXCEPT !.ret = TRUE]
            ELSE [stored EXCEPT !.ret = FALSE]
    ELSE [w EXCEPT !.ret = FALSE]

\* AuthService.login: an exception of a listener leaves it before the
\* return (the promise is rejected)
Login(w, username, password) ==
    LET user == GetUser(w, username) IN
    IF user # Undefined /\ user.password = password
    THEN LET marker == [username |-> user.username]
             notified == NotifyAuthChange(SetItem(w, CURRENT_USER_KEY, marker), marker)
         IN IF Thrown(notified) THEN notified
            ELSE [notified EXCEPT !.ret = TRUE]
    ELSE [w EXCEPT !.ret = FALSE]

\* Seeded fault for C2: signup that stores the user and does not log in.
Signup_WithoutLogin(w, username, password) ==
    LET saved == SaveUser(w, [username |-> username, password |-> password]) IN
    IF saved.ret THEN [saved EXCEPT !.ret = TRUE]
    ELSE [saved EXCEPT !.ret = FALSE]

\* AuthService.signup
Signup(w, username, password) ==
    LET saved == SaveUser(w, [username |-> username, password |-> password]) IN
    IF saved.ret THEN Login(saved, username, password)
    ELSE [saved EXCEPT !.ret = FALSE]

\* Seeded fault for C14: checkLoginStatus that emits the empty value without
\* reading the marker.
CheckLoginStatus_EmitsNull(w) == NotifyAuthChange(w, Null)

\* AuthService.checkLoginStatus
CheckLoginStatus(w) == NotifyAuthChange(w, GetLoggedInUser(w))

\* Seeded fault for C28: logout that forgets the active campaign too.
Logout_ForgetsActive(w) ==
    NotifyAuthChange(RemoveItem(RemoveItem(w, CURRENT_USER_KEY), ACTIVE_CAMPAIGN_KEY), Null)

\* Seeded fault for C25: logout that tells no listener.
Logout_Silent(w) == RemoveItem(w, CURRENT_USER_KEY)

\* Seeded fault for C17: logout that clears the whole storage.
Logout_ClearsStorage(w) == NotifyAuthChange([w EXCEPT !.store = << >>], Null)

\* AuthService.logout
Logout(w) == NotifyAuthChange(RemoveItem(w, CURRENT_USER_KEY), Null)

\* --------------------------------------------------------- UIController
\* UIController.handleLogin, with what the two inputs hold
HandleLogin(w, username, password) ==
    IF username = "" \/ password = ""
    THEN Log(w, <<"login-error", "Please enter both username and password.">>)
    ELSE LET tried == Login(w, username, password) IN
         IF Thrown(tried) THEN tried
         ELSE IF tried.ret THEN GoToDashboard(tried)
         ELSE Log(tried, <<"login-error", "Invalid username or password.">>)

\* UIController.handleSignup
HandleSignup(w, username, password) ==
    IF username = "" \/ password = ""
    THEN Log(w, <<"login-error", "Please enter both username and password for signup.">>)
    ELSE LET tried == Signup(w, username, password) IN
         IF Thrown(tried) THEN tried
         ELSE IF tried.ret THEN GoToDashboard(tried)
         ELSE Log(tried, <<"login-error", "Username already exists.">>)

\* UIController.handleCreateCampaign, with what the name input holds
HandleCreateCampaign(w, nameInput) ==
    LET created == CreateCampaign(w, OrElse(nameInput, "New Campaign"))
    IN SetActiveCampaign(created, created.ret)

\* UIController.handleLoadCampaign; allCampaigns is what getAllCampaigns
\* returned to it
HandleLoadCampaign(w, allCampaigns, campaignId) ==
    LET hits == {i \in DOMAIN allCampaigns : allCampaigns[i].id = campaignId} IN
    IF hits # {}
    THEN SetActiveCampaign(w, allCampaigns[CHOOSE i \in hits : \A j \in hits : i <= j])
    ELSE LogError(w, "campaign not found")

\* Seeded fault for C26: handleSaveCampaign that replaces the banner alone.
HandleSaveCampaign_KeepsAssets(w) ==
    LET activeCampaign == GetActiveCampaign(w) IN
    IF activeCampaign # Null
    THEN LET updatedCampaign ==
               With(activeCampaign, "assets",
                    With(activeCampaign.assets, "banner",
                         [content |-> "Saved banner content", version |-> w.now]))
         IN SetActiveCampaign(SaveCampaign(w, updatedCampaign), updatedCampaign)
    ELSE LogError(w, "No active campaign to save.")

\* UIController.handleSaveCampaign
HandleSaveCampaign(w) ==
    LET activeCampaign == GetActiveCampaign(w) IN
    IF activeCampaign # Null
    THEN LET updatedCampaign ==
               With(activeCampaign, "assets",
                    [banner |-> [content |-> "Saved banner content", version |-> w.now],
                     marketingPage |-> Null,
                     landingPage |-> Null])
         IN SetActiveCampaign(SaveCampaign(w, updatedCampaign), updatedCampaign)
    ELSE LogError(w, "No active campaign to save.")

\* UIController.init
UIControllerInit(w) == CheckLoginStatus(w)

\* ------------------------------------------------------------- main.js
\* The controls as the page's markup gives them before any script runs
\* (empty text inputs, the first banner type, an unchecked box).
HtmlBannerForm ==
    [type |-> "square", text |-> "", bgColor |-> "", textColor |-> "",
     fontSize |-> "", fontFamily |-> ""]
HtmlMarketingForm ==
    [templateId |-> "template1", title |-> "", paragraph1 |-> "", imageUrl |-> "",
     bgColor |-> "", textColor |-> ""]
HtmlLandingForm ==
    [templateId |-> "template1", title |-> "", paragraph |-> "", imageUrl |-> "",
     ctaText |-> "", ctaLink |-> "", bgColor |-> "", textColor |-> "",
     includeLeadForm |-> FALSE]

\* The DOMContentLoaded handler over the storage a page load finds: the
\* editors' constructors apply template1, the listeners are registered,
\* createInitialUser, uiController.init().
PageLoad(w) ==
    LET fresh == [w EXCEPT !.listeners = <<>>,
                           !.bannerForm = HtmlBannerForm,
                           !.marketingForm = HtmlMarketingForm,
                           !.landingForm = HtmlLandingForm]
        built == LandingApplyTemplate(
                    MarketingApplyTemplate(
                       BannerApplyTemplate(fresh, "template1"), "template1"),
                    "template1")
    IN UIControllerInit(CreateInitialUser(built))

\* ---------------------------------------------------------------- inputs
UsernameInputs == {"", "testuser", "alice"}
PasswordInputs == {"", "password123", "pw"}
CampaignNameInputs == {"", "Spring Sale"}
LaterNameInputs == {"Spring Sale"}
CampaignIdInputs == {<<"campaign_", t>> : t \in 0..MaxClock}
BannerInputs == [text |-> {"50% off"}, fontSize |-> {""}]
BannerTemplateClicks == {"template2"}
MarketingInputs ==
    [title |-> {"", "My title"}, imageUrl |-> {"", "https://example.com/a.png"}]
LandingInputs ==
    [title |-> {"", "My title"}, paragraph |-> {"", "My text"}]
UnregisteredScreens == {"settings-screen"}

\* ----------------------------------------------------------------- state
\* quota: whether localStorage has no room left while the handler runs.
World ==
    [store |-> store, now |-> now, visible |-> visible,
     bannerForm |-> bannerForm, marketingForm |-> marketingForm,
     landingForm |-> landingForm, events |-> <<>>, ret |-> Undefined,
     quota |-> FALSE, listeners |-> listeners]

\* The handler named op took the world to w.
Apply(w, op) ==
    /\ store' = w.store
    /\ now' = w.now
    /\ visible' = w.visible
    /\ bannerForm' = w.bannerForm
    /\ marketingForm' = w.marketingForm
    /\ landingForm' = w.landingForm
    /\ events' = w.events
    /\ ret' = w.ret
    /\ listeners' = w.listeners
    /\ lastOp' = op

Commit(w, op) == Apply(w, op) /\ edits' = edits /\ tabs' = tabs

\* The same for an edit of a control by the user.
CommitEdit(w, op) ==
    edits < MaxEdits /\ Apply(w, op) /\ edits' = edits + 1 /\ tabs' = tabs

\* Two further tabs of the browser, which share the storage: the banner form
\* each shows, how far its saveBanner has got (the browser does not make the
\* reads and writes of one handler atomic against another tab), the record
\* it is writing, whether it reported an error, and the campaign that was
\* active when its editor was last loaded.
TabIds == {1, 2}
TabText == <<"Tab one", "Tab two">>
IdleTab(form) ==
    [pc |-> "idle", form |-> form, updated |-> Null, error |-> FALSE,
     loaded |-> Null]

\* The world as a tab's banner editor sees it.
TabWorld(t) == [World EXCEPT !.bannerForm = tabs[t].form]

\* A step of a tab took the storage to that of w.
CommitTab(w, op, tab) ==
    /\ Apply([World EXCEPT !.store = w.store], op)
    /\ edits' = edits
    /\ tabs' = [tabs EXCEPT ![op.args[1]] = tab]

\* A browser that never ran the application: empty storage, no element shown.
Blank ==
    [store |-> << >>, now |-> 0, visible |-> {},
     bannerForm |-> HtmlBannerForm, marketingForm |-> HtmlMarketingForm,
     landingForm |-> HtmlLandingForm, events |-> <<>>, ret |-> Undefined,
     quota |-> FALSE, listeners |-> <<>>]

\* The first page load.
Init ==
    LET w == PageLoad(Blank) IN
    /\ store = w.store
    /\ now = w.now
    /\ visible = w.visible
    /\ bannerForm = w.bannerForm
    /\ marketingForm = w.marketingForm
    /\ landingForm = w.landingForm
    /\ events = w.events
    /\ ret = w.ret
    /\ lastOp = [op |-> "pageLoad", args |-> <<>>]
    /\ edits = 0
    /\ tabs = [t \in TabIds |-> IdleTab(w.bannerForm)]
    /\ listeners = w.listeners

\* --------------------------------------------------------------- actions
\* A millisecond passes.
Tick ==
    /\ now < MaxClock
    /\ Commit([World EXCEPT !.now = now + 1], [op |-> "tick", args |-> <<>>])

\* The page is loaded again over the same storage.
Reload == Commit(PageLoad(World), [op |-> "pageLoad", args |-> <<>>])

\* authService.login(username, password)
DoLogin ==
    \E u \in UsernameInputs, p \in PasswordInputs :
        Commit(Login(World, u, p), [op |-> "login", args |-> <<u, p>>])

\* authService.signup(username, password)
DoSignup ==
    \E u \in UsernameInputs, p \in PasswordInputs :
        Commit(Signup(World, u, p), [op |-> "signup", args |-> <<u, p>>])

\* The logout button: authService.logout()
DoLogout == Commit(Logout(World), [op |-> "logout", args |-> <<>>])

\* The login form is submitted.
SubmitLogin ==
    \E u \in UsernameInputs, p \in PasswordInputs :
        Commit(HandleLogin(World, u, p), [op |-> "handleLogin", args |-> <<u, p>>])

\* The login form is submitted with the seeded user's credentials.
SubmitSeededLogin ==
    Commit(HandleLogin(World, InitialUser.username, InitialUser.password),
           [op |-> "handleLogin",
            args |-> <<InitialUser.username, InitialUser.password>>])

\* The signup button.
ClickSignup ==
    \E u \in UsernameInputs, p \in PasswordInputs :
        Commit(HandleSignup(World, u, p), [op |-> "handleSignup", args |-> <<u, p>>])

\* The four navigation buttons.
NavDashboard == Commit(GoToDashboard(World), [op |-> "goToDashboard", args |-> <<>>])
NavBannerEditor ==
    Commit(GoToBannerEditor(World), [op |-> "goToBannerEditor", args |-> <<>>])
NavMarketingPageEditor ==
    Commit(GoToMarketingPageEditor(World), [op |-> "goToMarketingPageEditor", args |-> <<>>])
NavLandingPageEditor ==
    Commit(GoToLandingPageEditor(World), [op |-> "goToLandingPageEditor", args |-> <<>>])

\* navigationService._showScreen(id) with an id outside the registry
ShowUnregistered ==
    \E id \in UnregisteredScreens :
        Commit(ShowScreen(World, id), [op |-> "_showScreen", args |-> <<id>>])

\* navigationService._showScreen(id) with an id of the registry
ShowRegistered ==
    \E id \in Screens :
        Commit(ShowScreen(World, id), [op |-> "_showScreen", args |-> <<id>>])

\* Another tab logs out: the marker leaves the shared storage, and this
\* tab's listeners are not called.
SessionRemovedElsewhere ==
    /\ GetLoggedInUser(World) # Null
    /\ Commit(RemoveItem(World, CURRENT_USER_KEY),
              [op |-> "otherTabLogout", args |-> <<>>])

\* The create-campaign button, with what the name input holds.
ClickCreateCampaign ==
    \E n \in CampaignNameInputs :
        /\ \/ Cardinality(CampaignKeys(World)) < MaxCampaigns
           \/ CAMPAIGN_PREFIX \o GenerateCampaignId(World) \in DOMAIN store
        /\ Commit(HandleCreateCampaign(World, n),
               [op |-> "handleCreateCampaign", args |-> <<n>>])

\* The listeners a script registers through window.app.authService.
LaterListeners ==
    {[id |-> "faulty", throws |-> TRUE], [id |-> "quiet", throws |-> FALSE]}

\* authService.onAuthChange(listener)
RegisterListener ==
    \E listener \in LaterListeners :
        /\ Len(listeners) < MaxListeners
        /\ Commit(OnAuthChange(World, listener),
                  [op |-> "onAuthChange", args |-> <<listener.id>>])

\* authService.login with the seeded user's credentials
DoSeededLogin ==
    Commit(Login(World, InitialUser.username, InitialUser.password),
           [op |-> "login",
            args |-> <<InitialUser.username, InitialUser.password>>])

\* authService.login(username, password) while the storage has no room
DoLoginStorageFull ==
    \E u \in UsernameInputs, p \in PasswordInputs :
        Commit(Login([World EXCEPT !.quota = TRUE], u, p),
               [op |-> "loginStorageFull", args |-> <<u, p>>])

\* The login form is submitted while the storage has no room.
SubmitLoginStorageFull ==
    \E u \in UsernameInputs, p \in PasswordInputs :
        Commit(HandleLogin([World EXCEPT !.quota = TRUE], u, p),
               [op |-> "handleLoginStorageFull", args |-> <<u, p>>])

\* authService.checkLoginStatus()
DoCheckLoginStatus ==
    Commit(CheckLoginStatus(World), [op |-> "checkLoginStatus", args |-> <<>>])

\* The storage gateway called directly (window.app exposes the services):
\* the keys, the values and the texts another program may leave in storage.
GatewayKeys == {CURRENT_USER_KEY, ACTIVE_CAMPAIGN_KEY}
GatewayValues ==
    {[plain |-> [username |-> "alice"]], [plain |-> [username |-> "testuser"]],
     [circular |-> TRUE], Undefined}
ForeignTexts == {"", "{oops"}

\* localStorageService.setItem(key, value), with room in the storage or not
GatewaySetItem ==
    \E key \in GatewayKeys, value \in GatewayValues, full \in BOOLEAN :
        Commit(SetItemValue([World EXCEPT !.quota = full], key, value),
               [op |-> "setItem", args |-> <<key, value, full>>])

\* localStorageService.getItem(key)
GatewayGetItem ==
    \E key \in GatewayKeys :
        Commit([World EXCEPT !.ret = GetItem(World, key)],
               [op |-> "getItem", args |-> <<key>>])

\* localStorageService.removeItem(key)
GatewayRemoveItem ==
    \E key \in GatewayKeys :
        Commit(RemoveItem(World, key), [op |-> "removeItem", args |-> <<key>>])

\* Something other than the application leaves a text under a key.
ForeignWrite ==
    \E key \in GatewayKeys, text \in ForeignTexts :
        Commit(Write(World, key, [text |-> text]),
               [op |-> "foreignWrite", args |-> <<key, text>>])

\* The create-campaign button at an instant no campaign was created at.
ClickCreateCampaignFresh ==
    \E n \in LaterNameInputs :
        /\ CAMPAIGN_PREFIX \o GenerateCampaignId(World) \notin DOMAIN store
        /\ Commit(HandleCreateCampaign(World, n),
                  [op |-> "handleCreateCampaign", args |-> <<n>>])

\* The create-campaign button a millisecond after the last handler ran.
ClickCreateCampaignLater ==
    \E n \in LaterNameInputs :
        /\ now < MaxClock
        /\ Commit(HandleCreateCampaign([World EXCEPT !.now = now + 1], n),
                  [op |-> "handleCreateCampaign", args |-> <<n>>])

\* A Load button of the campaign list: handleLoadCampaign(campaignId)
ClickLoadCampaign ==
    \E all \in GetAllCampaigns(World) : \E id \in CampaignIdInputs :
        Commit(HandleLoadCampaign(World, all, id),
               [op |-> "handleLoadCampaign", args |-> <<id>>])

\* The save-campaign button.
ClickSaveCampaign ==
    Commit(HandleSaveCampaign(World), [op |-> "handleSaveCampaign", args |-> <<>>])

\* campaignService.getAllCampaigns()
ListAll ==
    \E all \in GetAllCampaigns(World) :
        Commit([World EXCEPT !.ret = all], [op |-> "getAllCampaigns", args |-> <<>>])

\* The user edits a control of the banner editor.
TypeBanner ==
    \E f \in DOMAIN BannerInputs : \E v \in BannerInputs[f] :
        CommitEdit([World EXCEPT !.bannerForm[f] = v],
               [op |-> "typeBanner", args |-> <<f>>])

\* A template button of the banner editor.
ClickBannerTemplate ==
    \E t \in BannerTemplateClicks :
        CommitEdit(BannerApplyTemplate(World, t),
               [op |-> "bannerTemplate", args |-> <<t>>])

\* The save button of the banner editor.
ClickSaveBanner == Commit(SaveBanner(World), [op |-> "saveBanner", args |-> <<>>])

\* bannerEditor.render(): the editor is loaded again
RenderBanner == Commit(BannerRender(World), [op |-> "bannerRender", args |-> <<>>])

\* The user edits a control of the marketing-page editor.
TypeMarketing ==
    \E f \in DOMAIN MarketingInputs : \E v \in MarketingInputs[f] :
        CommitEdit([World EXCEPT !.marketingForm[f] = v],
               [op |-> "typeMarketing", args |-> <<f, v>>])

\* A template button of the marketing-page editor.
ClickMarketingTemplate ==
    \E t \in TemplateIds :
        CommitEdit(MarketingClickTemplate(World, t),
               [op |-> "marketingTemplate", args |-> <<t>>])

\* The save button of the marketing-page editor.
ClickSaveMarketing ==
    Commit(MarketingSavePage(World), [op |-> "marketingSavePage", args |-> <<>>])

\* marketingPageEditor.render()
RenderMarketing ==
    Commit(MarketingRender(World), [op |-> "marketingRender", args |-> <<>>])

\* The user edits a control of the landing-page editor.
TypeLanding ==
    \E f \in DOMAIN LandingInputs : \E v \in LandingInputs[f] :
        CommitEdit([World EXCEPT !.landingForm[f] = v],
               [op |-> "typeLanding", args |-> <<f, v>>])

\* A template button of the landing-page editor.
ClickLandingTemplate ==
    \E t \in TemplateIds :
        CommitEdit(LandingClickTemplate(World, t),
               [op |-> "landingTemplate", args |-> <<t>>])

\* The save button of the landing-page editor.
ClickSaveLanding ==
    Commit(LandingSavePage(World), [op |-> "landingSavePage", args |-> <<>>])

\* landingPageEditor.render()
RenderLanding ==
    Commit(LandingRender(World), [op |-> "landingRender", args |-> <<>>])

\* The user types the banner text in tab t (no handler of the tab is running).
TabTypeBanner(t) ==
    /\ tabs[t].pc = "idle"
    /\ tabs[t].form.text # TabText[t]
    /\ CommitTab(World, [op |-> "tabTypeBanner", args |-> <<t>>],
                 [tabs[t] EXCEPT !.form.text = TabText[t]])

\* The banner editor of tab t is rendered: loadBanner from the campaign the
\* shared pointer names now.
TabLoadBanner(t) ==
    LET w == TabWorld(t)
        activeCampaign == GetActiveCampaign(w)
    IN /\ tabs[t].pc = "idle"
       /\ activeCampaign # Null
       /\ CommitTab(World, [op |-> "tabLoadBanner", args |-> <<t>>],
                    [tabs[t] EXCEPT !.form = LoadBanner(w).bannerForm,
                                    !.loaded = [id |-> activeCampaign.id]])

\* saveBanner in tab t, up to its writes: the pointer is read and the record
\* to write is built, or the error is reported.
TabSaveBegin(t) ==
    LET w == TabWorld(t)
        activeCampaign == GetActiveCampaign(w)
    IN /\ tabs[t].pc = "idle"
       /\ IF activeCampaign = Null
          THEN CommitTab(World, [op |-> "tabSaveBegin", args |-> <<t>>],
                         [tabs[t] EXCEPT !.error = TRUE, !.updated = Null])
          ELSE CommitTab(World, [op |-> "tabSaveBegin", args |-> <<t>>],
                         [tabs[t] EXCEPT
                            !.pc = "record", !.error = FALSE,
                            !.updated = With(activeCampaign, "assets",
                                             With(activeCampaign.assets, "banner",
                                                  BannerData(w)))])

\* saveBanner in tab t: campaignService.saveCampaign(activeCampaign)
TabWriteRecord(t) ==
    /\ tabs[t].pc = "record"
    /\ CommitTab(SaveCampaign(World, tabs[t].updated),
                 [op |-> "tabWriteRecord", args |-> <<t>>],
                 [tabs[t] EXCEPT !.pc = "pointer"])

\* saveBanner in tab t: campaignService.setActiveCampaign(activeCampaign)
TabWritePointer(t) ==
    /\ tabs[t].pc = "pointer"
    /\ CommitTab(SetActiveCampaign(World, tabs[t].updated),
                 [op |-> "tabWritePointer", args |-> <<t>>],
                 [tabs[t] EXCEPT !.pc = "idle"])

\* -------------------------------------------------------- specifications
\* The session manager and the router.
NextSession ==
    \/ Reload
    \/ DoLogin
    \/ DoSignup
    \/ DoLogout
    \/ SubmitLogin
    \/ ClickSignup
    \/ NavDashboard
    \/ NavBannerEditor
    \/ NavMarketingPageEditor
    \/ NavLandingPageEditor

SpecSession == Init /\ [][NextSession]_vars

\* The three editors before any campaign is created.
NextDetached ==
    \/ TypeBanner
    \/ ClickBannerTemplate
    \/ ClickSaveBanner
    \/ RenderBanner
    \/ TypeMarketing
    \/ ClickMarketingTemplate
    \/ ClickSaveMarketing
    \/ RenderMarketing
    \/ TypeLanding
    \/ ClickLandingTemplate
    \/ ClickSaveLanding
    \/ RenderLanding

SpecDetached == Init /\ [][NextDetached]_vars

\* The router called directly, and a session that ends in another tab.
NextRouter ==
    \/ NextSession
    \/ ShowUnregistered
    \/ SessionRemovedElsewhere

SpecRouter == Init /\ [][NextRouter]_vars

\* The router with every id of the registry as a target.
NextScreens ==
    \/ NextRouter
    \/ ShowRegistered

SpecScreens == Init /\ [][NextScreens]_vars

\* The life of the campaigns: every handler that writes the campaign store,
\* with the session changing meanwhile.
NextLifecycle ==
    \/ ClickCreateCampaignLater
    \/ ClickLoadCampaign
    \/ ClickSaveCampaign
    \/ ClickSaveLanding
    \/ SubmitSeededLogin
    \/ DoLogout

SpecLifecycle == Init /\ [][NextLifecycle]_vars

\* Two tabs that save banners into the campaigns of one storage.
NextTabs ==
    \/ ClickCreateCampaignLater
    \/ \E t \in TabIds : TabTypeBanner(t)
    \/ \E t \in TabIds : TabSaveBegin(t)
    \/ \E t \in TabIds : TabWriteRecord(t)
    \/ \E t \in TabIds : TabWritePointer(t)

SpecTabs == Init /\ [][NextTabs]_vars

\* The campaign store, the controller's campaign buttons and the banner editor.
NextCampaigns ==
    \/ ClickCreateCampaignLater
    \/ ClickLoadCampaign
    \/ TypeBanner
    \/ ClickBannerTemplate
    \/ ClickSaveBanner
    \/ RenderBanner

SpecCampaigns == Init /\ [][NextCampaigns]_vars

\* The marketing-page and landing-page editors.
NextEditors ==
    \/ ClickCreateCampaignLater
    \/ TypeMarketing
    \/ ClickMarketingTemplate
    \/ ClickSaveMarketing
    \/ RenderMarketing
    \/ TypeLanding
    \/ ClickLandingTemplate
    \/ ClickSaveLanding
    \/ RenderLanding

SpecEditors == Init /\ [][NextEditors]_vars

\* The campaign store alone: campaigns are created, activated, saved and
\* listed at any instant, several within one millisecond too.
NextStore ==
    \/ Tick
    \/ ClickCreateCampaign
    \/ ClickLoadCampaign
    \/ ClickSaveBanner
    \/ ListAll

SpecStore == Init /\ [][NextStore]_vars

\* The campaign list: campaigns are created at distinct instants, the active
\* one is saved, a user logs in, and the list is read.
NextListing ==
    \/ Tick
    \/ ClickCreateCampaignFresh
    \/ ClickSaveCampaign
    \/ SubmitSeededLogin
    \/ ListAll

SpecListing == Init /\ [][NextListing]_vars

\* The storage gateway alone, over a storage that other programs write too.
NextGateway ==
    \/ GatewaySetItem
    \/ GatewayGetItem
    \/ GatewayRemoveItem
    \/ ForeignWrite

SpecGateway == Init /\ [][NextGateway]_vars

\* The session with listeners registered after the page's own.
NextListeners ==
    \/ RegisterListener
    \/ DoSeededLogin
    \/ SubmitSeededLogin
    \/ DoCheckLoginStatus
    \/ DoLogout
    \/ Reload
    \/ NavBannerEditor

SpecListeners == Init /\ [][NextListeners]_vars

\* Several users, one after the other, in one browser.
NextTenancy ==
    \/ ClickCreateCampaignLater
    \/ ClickSaveLanding
    \/ ClickSignup
    \/ SubmitLogin
    \/ DoLogout

SpecTenancy == Init /\ [][NextTenancy]_vars

\* The session over a storage that at times has no room.
NextQuota ==
    \/ DoLogin
    \/ DoLoginStorageFull
    \/ SubmitLoginStorageFull
    \/ ClickSignup
    \/ DoLogout
    \/ NavBannerEditor

SpecQuota == Init /\ [][NextQuota]_vars

\* An editor in one tab while the page in another activates campaigns.
NextSharedPointer ==
    \/ ClickCreateCampaignLater
    \/ ClickLoadCampaign
    \/ TabLoadBanner(1)
    \/ TabTypeBanner(1)
    \/ TabSaveBegin(1)
    \/ TabWriteRecord(1)
    \/ TabWritePointer(1)

SpecSharedPointer == Init /\ [][NextSharedPointer]_vars

\* Everything the page offers.
Next ==
    \/ NextRouter
    \/ NextDetached
    \/ NextCampaigns
    \/ NextEditors
    \/ NextStore
    \/ NextTabs
    \/ NextLifecycle

Spec == Init /\ [][Next]_vars

\* ---------------------------------------------------------------- claims
\* The events of a call that are of the given kind.
EventsOfKind(w, kind) == {i \in DOMAIN w.events : w.events[i][1] = kind}

\* C1: login(username, password) with a username of the directory and a
\* password other than the stored one returns false, leaves the storage (the
\* session marker with it) and the screens as they were, and calls no
\* listener.
C1_WrongPasswordRejected ==
    \A u \in UsernameInputs, p \in PasswordInputs :
        (GetUser(World, u) # Undefined /\ GetUser(World, u).password # p) =>
            LET after == Login(World, u, p) IN
            /\ after.ret = FALSE
            /\ after.store = store
            /\ after.visible = visible
            /\ after.events = <<>>

\* alice is logged in, and a login as alice with a password that is not hers
\* has just returned false.
C1_Witness ==
    /\ lastOp.op = "login"
    /\ lastOp.args = <<"alice", "password123">>
    /\ ret = FALSE
    /\ GetUser(World, "alice") = [username |-> "alice", password |-> "pw"]
    /\ GetLoggedInUser(World) = [username |-> "alice"]
    /\ events = <<>>

\* C2: signup(username, password) with a username the directory does not
\* hold returns true, stores the user with that password and leaves the
\* session marker naming the username; after a logout, login with the same
\* credentials returns true and sets the marker again; and in every state
\* login with the credentials of a stored user returns true and sets the
\* marker to that user.
C2_SignupThenLogin ==
    /\ \A u \in UsernameInputs, p \in PasswordInputs :
          GetUser(World, u) = Undefined =>
              LET signed == Signup(World, u, p)
                  out == Logout(signed)
                  back == Login(out, u, p)
              IN /\ signed.ret = TRUE
                 /\ GetUser(signed, u) = [username |-> u, password |-> p]
                 /\ GetLoggedInUser(signed) = [username |-> u]
                 /\ GetLoggedInUser(out) = Null
                 /\ back.ret = TRUE
                 /\ GetLoggedInUser(back) = [username |-> u]
    /\ \A i \in DOMAIN GetUsers(World) :
          LET user == GetUsers(World)[i]
              back == Login(World, user.username, user.password)
          IN /\ back.ret = TRUE
             /\ GetLoggedInUser(back) = [username |-> user.username]
    /\ lastOp.op = "signup" =>
          (ret = TRUE => /\ GetLoggedInUser(World) = [username |-> lastOp.args[1]]
                         /\ GetUser(World, lastOp.args[1]) =
                               [username |-> lastOp.args[1], password |-> lastOp.args[2]])

\* alice, who is in the directory only through a signup, has just logged in
\* with the credentials she signed up with.
C2_Witness ==
    /\ lastOp.op = "login"
    /\ lastOp.args = <<"alice", "pw">>
    /\ ret = TRUE
    /\ GetLoggedInUser(World) = [username |-> "alice"]
    /\ "dashboard-screen" \in visible

\* C3: signup with a username the directory already holds (the seeded
\* default user included) returns false and leaves the directory, the stored
\* password, the session marker and the screens unchanged; no listener is
\* called.
C3_DuplicateSignupRejected ==
    \A u \in UsernameInputs, p \in PasswordInputs :
        GetUser(World, u) # Undefined =>
            LET after == Signup(World, u, p) IN
            /\ after.ret = FALSE
            /\ after.store = store
            /\ after.visible = visible
            /\ after.events = <<>>

\* A signup as the seeded user with another password has just returned false
\* while alice is logged in; the seeded user's password is the seeded one.
C3_Witness ==
    /\ lastOp.op = "signup"
    /\ lastOp.args = <<"testuser", "pw">>
    /\ ret = FALSE
    /\ GetUser(World, "testuser") = InitialUser
    /\ GetLoggedInUser(World) = [username |-> "alice"]
    /\ events = <<>>

\* C4: a step that navigates to a screen id outside the registry reports an
\* error and changes nothing on the screen: what was visible before is what
\* is visible after, and some screen is visible.
C4_UnregisteredTargetChangesNothing ==
    [][lastOp'.op = "_showScreen" =>
          /\ \E i \in DOMAIN events' : events'[i][1] = "error"
          /\ visible' = visible
          /\ visible' # {}]_vars

\* C5: while no active-campaign pointer is stored, the save of each of the
\* three editors leaves the storage as it was and ends without an exception.
C5_SaveWithoutActiveCampaign ==
    GetActiveCampaign(World) = Null =>
        \A after \in {SaveBanner(World), MarketingSavePage(World),
                      LandingSavePage(World)} :
            /\ after.store = store
            /\ EventsOfKind(after, "throw") = {}

\* The landing editor's save has just run on an edited form with no active
\* campaign, and reported only the error.
C5_Witness ==
    /\ lastOp.op = "landingSavePage"
    /\ GetActiveCampaign(World) = Null
    /\ landingForm.title = "My title"
    /\ events = << <<"error", "No active campaign to save to.">> >>

\* C10: while no session marker is stored, each of goToDashboard,
\* goToBannerEditor, goToMarketingPageEditor and goToLandingPageEditor ends
\* with the login screen as the only visible element (the shell hidden), shows
\* no other screen on the way, runs no render hook and leaves the editors'
\* forms alone.
C10_GuardedNavigationNeedsSession ==
    GetLoggedInUser(World) = Null =>
        \A after \in {GoToDashboard(World), GoToBannerEditor(World),
                      GoToMarketingPageEditor(World), GoToLandingPageEditor(World)} :
            /\ after.visible = {"login-screen"}
            /\ EventsOfKind(after, "render") = {}
            /\ \A i \in EventsOfKind(after, "show") :
                  after.events[i] = <<"show", "login-screen">>
            /\ after.bannerForm = bannerForm
            /\ after.marketingForm = marketingForm
            /\ after.landingForm = landingForm

\* goToLandingPageEditor has just run without a session marker and showed
\* the login screen.
C10_Witness ==
    /\ lastOp.op = "goToLandingPageEditor"
    /\ GetLoggedInUser(World) = Null
    /\ visible = {"login-screen"}
    /\ events = << <<"hide-all">>, <<"show", "login-screen">> >>

\* The active campaign is as handleCreateCampaign left it: created and
\* activated at the same instant, no asset saved since.
JustCreatedAndActivated ==
    LET c == GetActiveCampaign(World) IN
    /\ c # Null
    /\ c.lastUpdated = c.createdAt
    /\ c.assets = [banner |-> Null, marketingPage |-> Null, landingPage |-> Null]

\* C6: when getAllCampaigns is called after a campaign was created under a
\* name no other stored campaign carries and activated (no campaign was
\* activated since), the list it returns holds exactly one record with that
\* name, and that record is the first of the list.
C6_CreatedCampaignListedOnceAndFirst ==
    LET c == GetActiveCampaign(World) IN
    (/\ lastOp.op = "getAllCampaigns"
     /\ JustCreatedAndActivated
     /\ \A k \in CampaignKeys(World) :
           GetItem(World, k).id # c.id => GetItem(World, k).name # c.name) =>
        /\ Cardinality({i \in DOMAIN ret : ret[i].name = c.name}) = 1
        /\ ret[1].id = c.id

\* The fields C7 is about, and what its rule makes of one of them when the
\* template goes from `from` to `to`: a field that shows the preset of `from`
\* takes the preset of `to`, other text that is not empty stays.
Switched(defaults, from, to, field, old, new) ==
    IF old = defaults[from][field] THEN new = defaults[to][field]
    ELSE old # "" => new = old

\* C7: a click on a template button of the marketing-page or landing-page
\* editor treats title, body text and image address alike: a field the user
\* typed into keeps the typed text, and a field that still shows the preset of
\* the template selected before takes the preset of the template clicked.
C7_TemplateSwitchOverwritesUntouched ==
    [][/\ lastOp'.op = "marketingTemplate" =>
             \A f \in {"title", "paragraph1", "imageUrl"} :
                 Switched(MarketingDefaults, marketingForm.templateId,
                          lastOp'.args[1], f, marketingForm[f], marketingForm'[f])
       /\ lastOp'.op = "landingTemplate" =>
             \A f \in {"title", "paragraph", "imageUrl"} :
                 Switched(LandingDefaults, landingForm.templateId,
                          lastOp'.args[1], f, landingForm[f], landingForm'[f])]_vars

\* The worlds one edit of the banner form away from w, and w itself.
BannerEdits(w) ==
    {w} \cup {BannerApplyTemplate(w, t) : t \in TemplateIds}
        \cup UNION {{[w EXCEPT !.bannerForm[f] = v] : v \in BannerInputs[f]} :
                       f \in DOMAIN BannerInputs}

\* C8: with an active campaign, after the banner is saved the pointer and the
\* campaign's record hold the data saved, and a reload of the editor shows
\* the saved text and the other saved fields, whether or not the form was
\* changed after the save.
C8_BannerRoundTrip ==
    GetActiveCampaign(World) # Null =>
        LET saved == SaveBanner(World)
            key == CAMPAIGN_PREFIX \o GetActiveCampaign(World).id
        IN /\ GetActiveCampaign(saved).assets.banner = BannerData(World)
           /\ GetItem(saved, key).assets.banner = BannerData(World)
           /\ BannerData(World).text = bannerForm.text
           /\ \A changed \in BannerEdits(saved) :
                 BannerRender(changed).bannerForm = BannerData(World)

\* The only campaign has the banner saved from the form as the page load left
\* it; the one edit made to the form, which that banner does not show, came
\* after the save, and the editor, loaded again, shows the saved banner.
C8_Witness ==
    /\ lastOp.op = "bannerRender"
    /\ Cardinality(CampaignKeys(World)) = 1
    /\ GetActiveCampaign(World) # Null
    /\ GetActiveCampaign(World).assets.banner # Null
    /\ GetActiveCampaign(World).assets.banner.text = ""
    /\ GetActiveCampaign(World).assets.banner.fontSize = BannerTemplates.template1.fontSize
    /\ GetActiveCampaign(World).assets.banner.bgColor = BannerTemplates.template1.bgColor
    /\ edits = 1
    /\ bannerForm = GetActiveCampaign(World).assets.banner

\* C9: while a campaign B is active, the save of each editor changes only
\* B's record and the pointer; every other campaign A keeps its record, and
\* loading A after the save makes the pointer carry the assets A's record
\* held, its banner as it was saved.
C9_SavesTouchOnlyActiveCampaign ==
    LET b == GetActiveCampaign(World) IN
    b # Null =>
        \A after \in {SaveBanner(World), MarketingSavePage(World),
                      LandingSavePage(World)} :
            /\ DOMAIN after.store = DOMAIN store \cup {CAMPAIGN_PREFIX \o b.id}
            /\ \A k \in DOMAIN store :
                  k \notin {ACTIVE_CAMPAIGN_KEY, CAMPAIGN_PREFIX \o b.id} =>
                      after.store[k] = store[k]
            /\ \A all \in GetAllCampaigns(after) :
                  \A k \in CampaignKeys(World) :
                      LET a == GetItem(World, k)
                          loaded == HandleLoadCampaign(after, all, a.id)
                      IN a.id # b.id =>
                            /\ GetActiveCampaign(loaded).id = a.id
                            /\ GetActiveCampaign(loaded).assets = a.assets

\* A was loaded again: it carries the banner saved in it, and a campaign
\* created after A holds a different banner saved while it was active.
C9_Witness ==
    LET a == GetActiveCampaign(World) IN
    /\ lastOp.op = "handleLoadCampaign"
    /\ a # Null
    /\ a.assets.banner # Null
    /\ a.assets.banner = GetItem(World, CAMPAIGN_PREFIX \o a.id).assets.banner
    /\ \E k \in CampaignKeys(World) :
          LET b == GetItem(World, k) IN
          /\ DateValue(b.createdAt) > DateValue(a.createdAt)
          /\ b.assets.banner # Null
          /\ b.assets.banner # a.assets.banner

\* The five content screens; the registry holds the shell container besides.
ContentScreens == Screens \ {"main-app-content"}

\* What C11 asks of the screens after a transition to the target.
OneScreenShown(w, target) ==
    /\ w.visible \cap ContentScreens = {target}
    /\ ("main-app-content" \in w.visible) <=> (target # "login-screen")

\* The screen a guarded navigation ends on.
Landing(w, wanted) == IF GetLoggedInUser(w) # Null THEN wanted ELSE "login-screen"

\* C11 (as stated): after _showScreen with any id of the registry exactly one
\* of the five content screens is visible, and the shell is visible exactly
\* when that screen is not the login screen.
C11_AnyRegisteredTarget ==
    \A id \in Screens :
        \E shown \in ContentScreens : OneScreenShown(ShowScreen(World, id), shown)

\* C11 (amended): after _showScreen with the id of a content screen, and after
\* each navigation of the router, the target is the one content screen that
\* is visible, and the shell is visible exactly when the target is not the
\* login screen.
C11_OneContentScreen ==
    /\ \A id \in ContentScreens : OneScreenShown(ShowScreen(World, id), id)
    /\ OneScreenShown(GoToLogin(World), "login-screen")
    /\ OneScreenShown(GoToDashboard(World), Landing(World, "dashboard-screen"))
    /\ OneScreenShown(GoToBannerEditor(World), Landing(World, "banner-editor-screen"))
    /\ OneScreenShown(GoToMarketingPageEditor(World),
                      Landing(World, "marketing-editor-screen"))
    /\ OneScreenShown(GoToLandingPageEditor(World),
                      Landing(World, "landing-editor-screen"))
    /\ lastOp.op = "_showScreen" /\ lastOp.args[1] \in ContentScreens =>
          OneScreenShown(World, lastOp.args[1])

\* _showScreen has just shown the marketing editor, with the shell.
C11_Witness ==
    /\ lastOp.op = "_showScreen"
    /\ lastOp.args = <<"marketing-editor-screen">>
    /\ visible = {"marketing-editor-screen", "main-app-content"}
    /\ events[1] = <<"hide-all">>

\* The notifications of a call: the listener and the value of each, in order.
Notifications(w) ==
    LET idx == EventsOfKind(w, "notify")
        F[n \in 0..Len(w.events)] ==
            IF n = 0 THEN <<>>
            ELSE IF n \in idx THEN Append(F[n - 1], <<w.events[n][2], w.events[n][3]>>)
            ELSE F[n - 1]
    IN F[Len(w.events)]

\* C12: logout() in any state clears the session marker, calls each listener
\* with the empty value and leaves the login screen as the visible one; a
\* successful login() has the marker stored when the listeners run, calls
\* them with the marker, and leaves the dashboard visible with the shell.
C12_SessionChangesDriveNavigation ==
    /\ LET out == Logout(World) IN
          /\ GetLoggedInUser(out) = Null
          /\ Notifications(out) = << <<"controller", Null>>, <<"router", Null>> >>
          /\ out.visible = {"login-screen"}
    /\ \A u \in UsernameInputs, p \in PasswordInputs :
          LET in == Login(World, u, p)
              marker == [username |-> u]
          IN in.ret =>
                /\ GetLoggedInUser(in) = marker
                /\ Notifications(in) = << <<"controller", marker>>, <<"router", marker>> >>
                /\ <<"show", "dashboard-screen">> \in {in.events[i] : i \in EventsOfKind(in, "show")}
                /\ in.visible = {"dashboard-screen", "main-app-content"}

\* A login from the login screen, with no marker stored before it, has just
\* succeeded and the dashboard is shown.
C12_Witness ==
    /\ lastOp.op = "login"
    /\ ret = TRUE
    /\ GetLoggedInUser(World) = [username |-> "testuser"]
    /\ visible = {"dashboard-screen", "main-app-content"}
    /\ Notifications([events |-> events]) =
          << <<"controller", [username |-> "testuser"]>>,
             <<"router", [username |-> "testuser"]>> >>
    /\ \A i \in EventsOfKind([events |-> events], "render") : i > 2

\* No asset of the kind is there to load: no campaign is active, or the
\* active one has none stored.
NoAsset(kind) ==
    LET c == GetActiveCampaign(World) IN
    c = Null \/ c.assets[kind] = Null

\* C13: when there is no asset to load, the load of an editor leaves the
\* form with the presets of the default template (template1; the banner text
\* 'Your Ad Text Here', the lead-form box unchecked), whatever it held before.
C13_LoadWithoutAssetGivesDefaults ==
    /\ NoAsset("banner") =>
          LET form == LoadBanner(World).bannerForm IN
          /\ form.text = "Your Ad Text Here"
          /\ \A f \in DOMAIN BannerTemplates.template1 :
                form[f] = BannerTemplates.template1[f]
    /\ (lastOp.op = "marketingRender" /\ NoAsset("marketingPage")) =>
          /\ marketingForm.templateId = "template1"
          /\ \A f \in DOMAIN MarketingDefaults.template1 :
                marketingForm[f] = MarketingDefaults.template1[f]
    /\ (lastOp.op = "landingRender" /\ NoAsset("landingPage")) =>
          /\ landingForm.templateId = "template1"
          /\ landingForm.includeLeadForm = FALSE
          /\ \A f \in DOMAIN LandingDefaults.template1 :
                landingForm[f] = LandingDefaults.template1[f]

\* C14: checkLoginStatus calls each listener with the stored session marker
\* (the empty value when none is stored) and leaves the storage as it was;
\* a page load keeps the marker and ends with the dashboard visible when a
\* marker is stored, with the login screen visible otherwise.
C14_StartupFollowsStoredSession ==
    LET user == GetLoggedInUser(World)
        checked == CheckLoginStatus(World)
        loaded == PageLoad(World)
        expected == IF user # Null THEN {"dashboard-screen", "main-app-content"}
                    ELSE {"login-screen"}
    IN /\ checked.store = store
       /\ Notifications(checked) = << <<"controller", user>>, <<"router", user>> >>
       /\ GetLoggedInUser(loaded) = user
       /\ loaded.visible = expected
       /\ lastOp.op = "pageLoad" => visible = expected

\* The page has just been loaded with alice's marker in the storage, and the
\* dashboard is shown.
C14_Witness ==
    /\ lastOp.op = "pageLoad"
    /\ GetLoggedInUser(World) = [username |-> "alice"]
    /\ visible = {"dashboard-screen", "main-app-content"}
    /\ Notifications([events |-> events]) =
          << <<"controller", [username |-> "alice"]>>,
             <<"router", [username |-> "alice"]>> >>

\* The call that took World to w notified with the value user: the
\* controller's listener was called first and once, it refreshed the
\* dashboard exactly when the dashboard was visible as the call began and the
\* value is not empty, and the router's listener was called next and once.
NotifiedInOrder(w, user) ==
    LET refresh == user # Null /\ "dashboard-screen" \in visible IN
    /\ Notifications(w) = << <<"controller", user>>, <<"router", user>> >>
    /\ w.events[1] = <<"notify", "controller", user>>
    /\ IF refresh
       THEN /\ w.events[2] = <<"render", "dashboard-screen">>
            /\ w.events[3] = <<"notify", "router", user>>
       ELSE w.events[2] = <<"notify", "router", user>>

C16_LastSaveWins ==
    /\ lastOp.op = "tabSaveBegin" =>
          (tabs[lastOp.args[1]].error <=> GetActiveCampaign(World) = Null)
    /\ lastOp.op = "tabWriteRecord" =>
          LET u == tabs[lastOp.args[1]].updated IN
          /\ GetItem(World, CAMPAIGN_PREFIX \o u.id) = u
          /\ u.assets.banner = BannerData(TabWorld(lastOp.args[1]))
    /\ lastOp.op = "tabWritePointer" =>
          LET u == tabs[lastOp.args[1]].updated IN
          GetActiveCampaign(World) = With(u, "lastUpdated", ToISOString(now))
    /\ \A t \in TabIds :
          LET w == TabWorld(t)
              c == GetActiveCampaign(w)
              u == With(c, "assets", With(c.assets, "banner", BannerData(w)))
          IN c # Null =>
                /\ SaveBanner(w).store = SetActiveCampaign(SaveCampaign(w, u), u).store
                /\ EventsOfKind(SaveBanner(w), "error") = {}

\* Both tabs saved the banner of one campaign, with different texts; tab 2
\* wrote last, and the record and the pointer carry its text: the text tab 1
\* saved is not in the storage any more.
C16_Witness ==
    /\ lastOp = [op |-> "tabWritePointer", args |-> <<2>>]
    /\ tabs[1].pc = "idle" /\ tabs[1].updated # Null /\ ~tabs[1].error
    /\ tabs[2].updated # Null /\ ~tabs[2].error
    /\ tabs[1].updated.id = tabs[2].updated.id
    /\ tabs[1].updated.assets.banner.text = "Tab one"
    /\ tabs[2].updated.assets.banner.text = "Tab two"
    /\ GetItem(World, CAMPAIGN_PREFIX \o tabs[2].updated.id).assets.banner.text = "Tab two"
    /\ GetActiveCampaign(World).assets.banner.text = "Tab two"

\* Every campaign record stored in the world `before` is stored in the world
\* `after` under the same key with the same id, every list getAllCampaigns
\* may return in `after` holds a record with that id, and `after` stores no
\* fewer campaign records than `before`.
CampaignsSurvive(before, after) ==
    LET ids == {GetItem(before, k).id : k \in CampaignKeys(before)} IN
    /\ \A k \in CampaignKeys(before) :
          /\ k \in CampaignKeys(after)
          /\ GetItem(after, k).id = GetItem(before, k).id
    /\ \A all \in GetAllCampaigns(after) :
          ids \subseteq {all[i].id : i \in DOMAIN all}
    /\ Cardinality(CampaignKeys(after)) >= Cardinality(CampaignKeys(before))

\* C17: no handler deletes a campaign: from every state, after a creation
\* (at this instant or later), a load, the save-campaign button, the save of
\* each editor, a login, a signup or a logout, every campaign stored before
\* is still stored under its id and listed, and no fewer campaigns are
\* stored.
C17_CampaignsNeverDeleted ==
    /\ \A n \in CampaignNameInputs :
          /\ CampaignsSurvive(World, HandleCreateCampaign(World, n))
          /\ CampaignsSurvive(World,
                HandleCreateCampaign([World EXCEPT !.now = now + 1], n))
    /\ \A all \in GetAllCampaigns(World) : \A id \in CampaignIdInputs :
          CampaignsSurvive(World, HandleLoadCampaign(World, all, id))
    /\ CampaignsSurvive(World, HandleSaveCampaign(World))
    /\ CampaignsSurvive(World, SaveBanner(World))
    /\ CampaignsSurvive(World, MarketingSavePage(World))
    /\ CampaignsSurvive(World, LandingSavePage(World))
    /\ CampaignsSurvive(World, Logout(World))
    /\ \A u \in UsernameInputs, p \in PasswordInputs :
          /\ CampaignsSurvive(World, HandleLogin(World, u, p))
          /\ CampaignsSurvive(World, HandleSignup(World, u, p))

\* Two campaigns are stored and listed, the older one after it was saved with
\* the save-campaign button and the newer one was created and saved in the
\* landing editor, and the user has logged out since.
C17_Witness ==
    /\ lastOp.op = "logout"
    /\ Cardinality(CampaignKeys(World)) = 2
    /\ \E k1, k2 \in CampaignKeys(World) :
          /\ DateValue(GetItem(World, k1).createdAt) < DateValue(GetItem(World, k2).createdAt)
          /\ GetItem(World, k1).assets.banner # Null
          /\ GetItem(World, k2).assets.landingPage # Null
    /\ \A all \in GetAllCampaigns(World) : Len(all) = 2

\* The active-campaign pointer of w is absent, or carries an id whose
\* per-id key holds a campaign record.
PointerReferencesRecord(w) ==
    LET active == GetActiveCampaign(w) IN
    \/ active = Null
    \/ /\ "id" \in DOMAIN active
       /\ CAMPAIGN_PREFIX \o active.id \in CampaignKeys(w)
       /\ GetItem(w, CAMPAIGN_PREFIX \o active.id).id = active.id

\* C18: with one tab writing the storage and every write succeeding, after
\* every sequence of campaign creations, loads, saves, editor saves, logins,
\* logouts and navigations the active-campaign pointer is absent or carries
\* the id of a stored per-id campaign record: it holds in every reachable
\* state, and every handler of the page keeps it from there.
C18_PointerReferencesRecord ==
    /\ PointerReferencesRecord(World)
    /\ \A n \in CampaignNameInputs :
          /\ PointerReferencesRecord(HandleCreateCampaign(World, n))
          /\ PointerReferencesRecord(HandleCreateCampaign([World EXCEPT !.now = now + 1], n))
    /\ \A all \in GetAllCampaigns(World) : \A id \in CampaignIdInputs :
          PointerReferencesRecord(HandleLoadCampaign(World, all, id))
    /\ PointerReferencesRecord(HandleSaveCampaign(World))
    /\ PointerReferencesRecord(SaveBanner(World))
    /\ PointerReferencesRecord(MarketingSavePage(World))
    /\ PointerReferencesRecord(LandingSavePage(World))
    /\ PointerReferencesRecord(Logout(World))
    /\ PointerReferencesRecord(PageLoad(World))
    /\ PointerReferencesRecord(GoToLogin(World))
    /\ PointerReferencesRecord(GoToDashboard(World))
    /\ PointerReferencesRecord(GoToBannerEditor(World))
    /\ PointerReferencesRecord(GoToMarketingPageEditor(World))
    /\ PointerReferencesRecord(GoToLandingPageEditor(World))
    /\ \A u \in UsernameInputs, p \in PasswordInputs :
          /\ PointerReferencesRecord(HandleLogin(World, u, p))
          /\ PointerReferencesRecord(HandleSignup(World, u, p))

\* The older of two campaigns was loaded from the list: the pointer carries
\* its id and a time stamp the stored record does not have.
C18_Witness ==
    /\ lastOp.op = "handleLoadCampaign"
    /\ Cardinality(CampaignKeys(World)) = 2
    /\ GetActiveCampaign(World) # Null
    /\ CAMPAIGN_PREFIX \o GetActiveCampaign(World).id \in CampaignKeys(World)
    /\ GetActiveCampaign(World) # GetItem(World, CAMPAIGN_PREFIX \o GetActiveCampaign(World).id)
    /\ \E k \in CampaignKeys(World) :
          DateValue(GetItem(World, k).createdAt) >
             DateValue(GetActiveCampaign(World).createdAt)

\* The usernames of the directory of w are pairwise distinct.
DistinctUsernames(w) ==
    LET users == GetUsers(w) IN
    \A i, j \in 1..Len(users) : users[i].username = users[j].username => i = j

\* Every record of the directory of before is in the directory of after,
\* with its password.
UsersKept(before, after) ==
    LET was == GetUsers(before)
        is == GetUsers(after)
    IN /\ Len(is) >= Len(was)
       /\ \A i \in 1..Len(was) : \E j \in 1..Len(is) :
             /\ is[j].username = was[i].username
             /\ is[j].password = was[i].password

\* What a call leaves of the user directory.
DirectoryStep(before, after) ==
    /\ DistinctUsernames(after)
    /\ UsersKept(before, after)

\* C19: after any sequence of createInitialUser, signup and login calls the
\* usernames of the directory are pairwise distinct, and no call removes a
\* record or changes a password; createInitialUser adds the default user to
\* an empty directory only, so a second call changes nothing.
C19_DirectoryGrowsDistinct ==
    /\ DistinctUsernames(World)
    /\ DirectoryStep(World, CreateInitialUser(World))
    /\ DirectoryStep(World, PageLoad(World))
    /\ DirectoryStep(World, Logout(World))
    /\ \A u \in UsernameInputs, p \in PasswordInputs :
          /\ DirectoryStep(World, Login(World, u, p))
          /\ DirectoryStep(World, Signup(World, u, p))
          /\ DirectoryStep(World, HandleLogin(World, u, p))
          /\ DirectoryStep(World, HandleSignup(World, u, p))
          /\ DirectoryStep(World, SaveUser(World, [username |-> u, password |-> p]))
    /\ GetUsers(Blank) = <<>>
    /\ GetUsers(CreateInitialUser(Blank)) = <<InitialUser>>
    /\ CreateInitialUser(CreateInitialUser(Blank)) = CreateInitialUser(Blank)
    /\ Len(GetUsers(World)) > 0
    /\ CreateInitialUser(World).store = store

\* The page was loaded again after a signup: the directory holds the seeded
\* user and the one who signed up, each once.
C19_Witness ==
    /\ lastOp.op = "pageLoad"
    /\ Len(GetUsers(World)) >= 2
    /\ GetUsers(World)[1] = InitialUser
    /\ \E i \in 1..Len(GetUsers(World)) :
          GetUsers(World)[i] = [username |-> "alice", password |-> "pw"]
    /\ \E u \in UsernameInputs, p \in PasswordInputs :
          /\ SaveUser(World, [username |-> u, password |-> p]).ret = FALSE
          /\ p # GetUser(World, u).password

\* The storage keys with the campaign prefix.
PrefixKeys(w) == {k \in DOMAIN w.store : StartsWith(k, CAMPAIGN_PREFIX)}

\* all holds exactly the records parsed from the prefix keys of w, each once.
ExactlyPrefixRecords(w, all) ==
    /\ {all[i] : i \in DOMAIN all} = {GetItem(w, k) : k \in PrefixKeys(w)}
    /\ Len(all) = Cardinality(PrefixKeys(w))
    /\ ACTIVE_CAMPAIGN_KEY \notin PrefixKeys(w)
    /\ USERS_KEY \notin PrefixKeys(w)
    /\ CURRENT_USER_KEY \notin PrefixKeys(w)

\* No record of all has a lastUpdated earlier than that of a record listed
\* after it; a record without lastUpdated is earlier than none and none is
\* earlier than it.
DescendingByLastUpdated(all) ==
    \A i, j \in DOMAIN all :
        (i < j /\ HasDate(all[i]) /\ HasDate(all[j])) =>
            DateValue(all[i].lastUpdated) >= DateValue(all[j].lastUpdated)

\* C20: getAllCampaigns returns exactly the parsed records stored under the
\* keys with the campaign prefix, never the active-campaign pointer, the
\* users list or the session marker, in an order where each record's
\* lastUpdated is not earlier than that of the record after it.
C20_ListAllExactAndDescending ==
    lastOp.op = "getAllCampaigns" =>
        /\ ExactlyPrefixRecords(World, ret)
        /\ DescendingByLastUpdated(ret)

\* No step of the handler that led to w ended with an uncaught exception.
NoThrow(w) == EventsOfKind(w, "throw") = {}

\* What setItem(key, value) does to w, with room in the storage or not.
SetItemContract(w, key, value, full) ==
    LET after == SetItemValue([w EXCEPT !.quota = full], key, value)
        fails == full \/ value = [circular |-> TRUE]
    IN /\ NoThrow(after)
       /\ after.ret = ~fails
       /\ fails => after.store = w.store
       /\ ~fails =>
             /\ DOMAIN after.store = DOMAIN w.store \cup {key}
             /\ \A k \in DOMAIN w.store \ {key} : after.store[k] = w.store[k]
             /\ after.store[key] = StoredText(value)
             /\ ("plain" \in DOMAIN value) =>
                    GetItem(after, key) = value.plain

\* C21: the storage gateway never throws.  setItem returns true when it
\* stored the value and false when JSON.stringify or the store's write
\* fails, and then the key keeps what it held; getItem returns null for a
\* missing key and for a stored text that does not parse.
C21_GatewayNeverThrows ==
    /\ \A key \in GatewayKeys, value \in GatewayValues, full \in BOOLEAN :
          SetItemContract(World, key, value, full)
    /\ \A key \in GatewayKeys :
          /\ NoThrow(RemoveItem(World, key))
          /\ key \notin DOMAIN store => GetItem(World, key) = Null
          /\ (key \in DOMAIN store /\ ParseThrows(store[key])) =>
                GetItem(World, key) = Null
          /\ (key \in DOMAIN store /\ ~ParseThrows(store[key])) =>
                GetItem(World, key) = store[key].json
    /\ NoThrow([events |-> events])
    /\ lastOp.op = "setItem" =>
          /\ ret \in BOOLEAN
          /\ ret => store[lastOp.args[1]] = StoredText(lastOp.args[2])
          /\ ret = ~(lastOp.args[3] \/ lastOp.args[2] = [circular |-> TRUE])

\* setItem failed for want of room and returned false while the key held a
\* value, which it still holds and getItem still returns.
C21_Witness ==
    /\ lastOp.op = "setItem"
    /\ lastOp.args[3]
    /\ "plain" \in DOMAIN lastOp.args[2]
    /\ ret = FALSE
    /\ lastOp.args[1] \in DOMAIN store
    /\ ~ParseThrows(store[lastOp.args[1]])
    /\ GetItem(World, lastOp.args[1]) # lastOp.args[2].plain
    /\ \E key \in GatewayKeys :
          key \in DOMAIN store /\ ParseThrows(store[key]) /\ GetItem(World, key) = Null

\* C22: in a transition to a registered screen that has a render hook, the
\* hook runs before the screen becomes visible: within the handler, the
\* render step of a screen precedes the step that shows it.
C22_RenderPrecedesShow ==
    \A i \in EventsOfKind([events |-> events], "render") :
        \A j \in EventsOfKind([events |-> events], "show") :
            events[i][2] = events[j][2] => i < j

\* The ids of the later listeners up to and with the first that throws.
CalledListeners(w) ==
    LET throwing == {i \in DOMAIN w.listeners : w.listeners[i].throws}
        last == IF throwing = {} THEN Len(w.listeners)
                ELSE CHOOSE i \in throwing : \A j \in throwing : i <= j
    IN [i \in 1..last |-> w.listeners[i].id]

\* The notification of user that led from before to after called the page's
\* two listeners and then the later ones, and ended with the exception of
\* the first that threw.
AbortedAtThrow(before, after, user) ==
    /\ Notifications(after) =
          << <<"controller", user>>, <<"router", user>> >> \o
          [i \in DOMAIN CalledListeners(before) |-> <<CalledListeners(before)[i], user>>]
    /\ Thrown(after) <=> (\E i \in DOMAIN before.listeners : before.listeners[i].throws)
    /\ Thrown(after) => after.events[Len(after.events)][1] = "throw"

\* C23: when a listener throws during a notification, no listener registered
\* after it is called for that change, the exception leaves login, logout and
\* checkLoginStatus (login does not return true), and the marker that login
\* wrote or logout removed before the notification stays written or removed.
C23_ThrowAbortsNotification ==
    LET marker == [username |-> InitialUser.username]
        loggedIn == Login(World, InitialUser.username, InitialUser.password)
        loggedOut == Logout(World)
        checked == CheckLoginStatus(World)
    IN /\ AbortedAtThrow(World, loggedIn, marker)
       /\ GetLoggedInUser(loggedIn) = marker
       /\ IF Thrown(loggedIn) THEN loggedIn.ret = Undefined ELSE loggedIn.ret = TRUE
       /\ AbortedAtThrow(World, loggedOut, Null)
       /\ CURRENT_USER_KEY \notin DOMAIN loggedOut.store
       /\ AbortedAtThrow(World, checked, GetLoggedInUser(World))
       /\ checked.store = store
       /\ Thrown(HandleLogin(World, InitialUser.username, InitialUser.password))
             <=> Thrown(loggedIn)

\* A login was cut short by the first of two later listeners: the second
\* was not called, login did not return, and the marker is stored.
C23_Witness ==
    /\ lastOp.op = "login"
    /\ Len(listeners) = 2
    /\ listeners[1].throws
    /\ Thrown([events |-> events])
    /\ Notifications([events |-> events]) =
          << <<"controller", [username |-> "testuser"]>>,
             <<"router", [username |-> "testuser"]>>,
             <<listeners[1].id, [username |-> "testuser"]>> >>
    /\ GetLoggedInUser(World) = [username |-> "testuser"]
    /\ "dashboard-screen" \in visible

\* The per-id records of w that carry the id.
RecordsWithId(w, id) == {k \in CampaignKeys(w) : GetItem(w, k).id = id}

\* first and second are the worlds after two createCampaign calls, the
\* second made in the world the first left: the second took the place of the
\* first, in the store and in what getAllCampaigns returns.
SecondReplaces(first, second) ==
    /\ second.ret.id = first.ret.id
    /\ CampaignKeys(second) = CampaignKeys(first)
    /\ RecordsWithId(second, second.ret.id) = {CAMPAIGN_PREFIX \o first.ret.id}
    /\ GetItem(second, CAMPAIGN_PREFIX \o first.ret.id) = second.ret
    /\ \A all \in GetAllCampaigns(second) :
          /\ Cardinality({i \in DOMAIN all : all[i].id = first.ret.id}) = 1
          /\ \A i \in DOMAIN all : all[i].id = first.ret.id => all[i] = second.ret
          /\ Len(all) = Cardinality(CampaignKeys(first))

\* The second added a record and left that of the first.
SecondAdds(first, second) ==
    /\ second.ret.id # first.ret.id
    /\ CAMPAIGN_PREFIX \o second.ret.id \notin CampaignKeys(first)
    /\ CampaignKeys(second) = CampaignKeys(first) \cup {CAMPAIGN_PREFIX \o second.ret.id}
    /\ GetItem(second, CAMPAIGN_PREFIX \o first.ret.id) = first.ret
    /\ GetItem(second, CAMPAIGN_PREFIX \o second.ret.id) = second.ret
    /\ Cardinality(CampaignKeys(second)) = Cardinality(CampaignKeys(first)) + 1

AuthenticatedScreens == Screens \ {"login-screen"}

\* In w, one of them is visible only if a session marker is stored.
VisibleOnlyWithSession(w) ==
    w.visible \cap AuthenticatedScreens # {} => GetLoggedInUser(w) # Null

\* C25: in a single tab, after init and after every later operation of the
\* user (login, signup, logout, the navigation buttons, the campaign and
\* editor actions), an authenticated screen or the authenticated shell is
\* visible only if a session marker is stored.  Operations during which the
\* storage has no room are included.
C25_AuthenticatedScreensNeedSession ==
    /\ VisibleOnlyWithSession(World)
    /\ \A full \in BOOLEAN :
          LET w == [World EXCEPT !.quota = full] IN
          /\ VisibleOnlyWithSession(PageLoad(w))
          /\ VisibleOnlyWithSession(Logout(w))
          /\ VisibleOnlyWithSession(GoToDashboard(w))
          /\ VisibleOnlyWithSession(GoToBannerEditor(w))
          /\ VisibleOnlyWithSession(GoToMarketingPageEditor(w))
          /\ VisibleOnlyWithSession(GoToLandingPageEditor(w))
          /\ \A u \in UsernameInputs, p \in PasswordInputs :
                /\ VisibleOnlyWithSession(HandleLogin(w, u, p))
                /\ VisibleOnlyWithSession(HandleSignup(w, u, p))
          /\ \A n \in CampaignNameInputs :
                VisibleOnlyWithSession(HandleCreateCampaign(w, n))
          /\ \A all \in GetAllCampaigns(w) : \A id \in CampaignIdInputs :
                VisibleOnlyWithSession(HandleLoadCampaign(w, all, id))
          /\ VisibleOnlyWithSession(HandleSaveCampaign(w))
          /\ VisibleOnlyWithSession(SaveBanner(w))
          /\ VisibleOnlyWithSession(MarketingSavePage(w))
          /\ VisibleOnlyWithSession(LandingSavePage(w))
          /\ \A t \in TemplateIds :
                /\ VisibleOnlyWithSession(BannerApplyTemplate(w, t))
                /\ VisibleOnlyWithSession(MarketingClickTemplate(w, t))
                /\ VisibleOnlyWithSession(LandingClickTemplate(w, t))

\* The user went to the banner editor with a session: the editor and the
\* shell are visible and the marker is stored; a logout from here has to
\* hide both.
C25_Witness ==
    /\ lastOp.op = "goToBannerEditor"
    /\ visible = {"banner-editor-screen", "main-app-content"}
    /\ GetLoggedInUser(World) # Null
    /\ Logout(World).visible = {"login-screen"}
    /\ GetLoggedInUser(Logout(World)) = Null

\* The assets handleSaveCampaign writes at the instant of w.
PlaceholderAssets(w) ==
    [banner |-> [content |-> "Saved banner content", version |-> w.now],
     marketingPage |-> Null,
     landingPage |-> Null]

\* What handleSaveCampaign leaves when w has an active campaign: the pointer
\* and the per-id record of its id hold the placeholder assets and nothing
\* of the assets they held.
AssetsReplaced(w) ==
    LET after == HandleSaveCampaign(w)
        key == CAMPAIGN_PREFIX \o GetActiveCampaign(w).id
    IN /\ GetActiveCampaign(after).id = GetActiveCampaign(w).id
       /\ GetActiveCampaign(after).assets = PlaceholderAssets(w)
       /\ GetItem(after, key).assets = PlaceholderAssets(w)
       /\ \A k \in CampaignKeys(w) \ {key} : GetItem(after, k) = GetItem(w, k)

\* C26: the controller's save-campaign action replaces the whole assets
\* object of the active campaign, in the per-id record and in the pointer,
\* by a placeholder banner and null marketingPage and landingPage: a banner,
\* marketing page or landing page an editor saved before is stored no more.
C26_SaveCampaignDropsAssets ==
    GetActiveCampaign(World) # Null =>
        /\ AssetsReplaced(World)
        /\ GetActiveCampaign(SaveBanner(World)).assets.banner = BannerData(World)
        /\ AssetsReplaced(SaveBanner(World))
        /\ GetActiveCampaign(MarketingSavePage(World)).assets.marketingPage = MarketingPageData(World)
        /\ AssetsReplaced(MarketingSavePage(World))
        /\ GetActiveCampaign(LandingSavePage(World)).assets.landingPage = LandingPageData(World)
        /\ AssetsReplaced(LandingSavePage(World))

\* The landing-page editor saved into the active campaign, whose record and
\* pointer hold the page; the save-campaign action from here removes it.
C26_Witness ==
    /\ lastOp.op = "landingSavePage"
    /\ GetActiveCampaign(World) # Null
    /\ GetActiveCampaign(World).assets.landingPage = LandingPageData(World)
    /\ GetItem(World, CAMPAIGN_PREFIX \o GetActiveCampaign(World).id).assets.landingPage
          = LandingPageData(World)
    /\ GetItem(HandleSaveCampaign(World),
               CAMPAIGN_PREFIX \o GetActiveCampaign(World).id).assets.landingPage = Null
    /\ Cardinality(CampaignKeys(World)) = 2

\* The asset types and an asset a caller of updateCampaignAsset hands in.
AssetTypes == {"banner", "marketingPage", "landingPage"}
HandedAsset == [templateId |-> "template3", title |-> "Handed in"]

\* The record a campaign is but for its lastUpdated.
WithoutLastUpdated(c) == [f \in DOMAIN c \ {"lastUpdated"} |-> c[f]]

\* In w the active pointer, if there is one, and the per-id record of its id
\* hold the same name, status and assets (and id and createdAt).
PointerAgreesWithRecord(w) ==
    LET active == GetActiveCampaign(w) IN
    active # Null =>
        /\ CAMPAIGN_PREFIX \o active.id \in CampaignKeys(w)
        /\ WithoutLastUpdated(GetItem(w, CAMPAIGN_PREFIX \o active.id))
              = WithoutLastUpdated(active)

\* updateCampaignAsset on the active campaign of w, then an editor's save:
\* the record alone takes the asset, and the save puts the pointer's assets,
\* with what the editor wrote, in its place.
UpdateThenSave(w, assetType) ==
    LET active == GetActiveCampaign(w)
        key == CAMPAIGN_PREFIX \o active.id
        updated == UpdateCampaignAsset(w, active.id, assetType, HandedAsset)
        saves == [banner |-> SaveBanner(updated),
                  marketingPage |-> MarketingSavePage(updated),
                  landingPage |-> LandingSavePage(updated)]
    IN /\ GetActiveCampaign(updated) = active
       /\ GetItem(updated, key).assets[assetType] = HandedAsset
       /\ GetItem(updated, key).assets # active.assets
       /\ ~PointerAgreesWithRecord(updated)
       /\ \A k \in DOMAIN updated.store \ {key} : updated.store[k] = w.store[k]
       /\ \A editor \in AssetTypes :
             /\ PointerAgreesWithRecord(saves[editor])
             /\ GetItem(saves[editor], key).assets[assetType] # HandedAsset
             /\ \A other \in AssetTypes \ {editor} :
                   GetItem(saves[editor], key).assets[other] = active.assets[other]

\* C27: in a single tab whose writes succeed, after each of create campaign,
\* load campaign, save campaign and an editor's save the active pointer and
\* the per-id record of its id hold the same name, status and assets and
\* differ at most in lastUpdated.  updateCampaignAsset writes the per-id
\* record alone: applied to the active campaign's id it makes the two differ,
\* and the next editor save writes the pointer's assets over the updated one.
C27_PointerAndRecordAgree ==
    /\ PointerAgreesWithRecord(World)
    /\ \A n \in CampaignNameInputs :
          /\ PointerAgreesWithRecord(HandleCreateCampaign(World, n))
          /\ PointerAgreesWithRecord(HandleCreateCampaign([World EXCEPT !.now = now + 1], n))
    /\ \A all \in GetAllCampaigns(World) : \A id \in CampaignIdInputs :
          PointerAgreesWithRecord(HandleLoadCampaign(World, all, id))
    /\ PointerAgreesWithRecord(HandleSaveCampaign(World))
    /\ PointerAgreesWithRecord(SaveBanner(World))
    /\ PointerAgreesWithRecord(MarketingSavePage(World))
    /\ PointerAgreesWithRecord(LandingSavePage(World))
    /\ GetActiveCampaign(World) # Null =>
          \A assetType \in AssetTypes : UpdateThenSave(World, assetType)

\* The older of two campaigns was loaded after a landing page was saved into
\* it: pointer and record agree and differ in lastUpdated; an
\* updateCampaignAsset from here changes the record alone.
C27_Witness ==
    /\ lastOp.op = "handleLoadCampaign"
    /\ Cardinality(CampaignKeys(World)) = 2
    /\ GetActiveCampaign(World) # Null
    /\ GetActiveCampaign(World).assets.landingPage # Null
    /\ GetItem(World, CAMPAIGN_PREFIX \o GetActiveCampaign(World).id) # GetActiveCampaign(World)
    /\ PointerAgreesWithRecord(World)
    /\ ~PointerAgreesWithRecord(
          UpdateCampaignAsset(World, GetActiveCampaign(World).id, "banner", HandedAsset))

\* The storage of w but for the session marker.
BesidesMarker(w) == [k \in DOMAIN w.store \ {CURRENT_USER_KEY} |-> w.store[k]]

\* C28: logout changes the session marker alone: the user directory, every
\* campaign record and the active-campaign pointer stay, so that after a
\* login as another user getAllCampaigns and the active campaign are what
\* they were before the logout.
C28_LogoutKeepsCampaigns ==
    LET out == Logout(World) IN
    /\ BesidesMarker(out) = BesidesMarker(World)
    /\ CURRENT_USER_KEY \notin DOMAIN out.store
    /\ GetUsers(out) = GetUsers(World)
    /\ GetActiveCampaign(out) = GetActiveCampaign(World)
    /\ \A i \in DOMAIN GetUsers(World) :
          LET user == GetUsers(World)[i]
              in == Login(out, user.username, user.password)
          IN /\ in.ret = TRUE
             /\ GetLoggedInUser(in) = [username |-> user.username]
             /\ BesidesMarker(in) = BesidesMarker(World)
             /\ GetActiveCampaign(in) = GetActiveCampaign(World)
             /\ GetAllCampaigns(in) = GetAllCampaigns(World)

\* alice is logged in, after testuser, over two campaigns and an active one
\* with a landing page: a logout and a login of testuser keep all of it.
C28_Witness ==
    /\ lastOp.op = "handleLogin"
    /\ GetLoggedInUser(World) = [username |-> "alice"]
    /\ Len(GetUsers(World)) = 2
    /\ Cardinality(CampaignKeys(World)) = 2
    /\ GetActiveCampaign(World) # Null
    /\ GetActiveCampaign(World).assets.landingPage # Null
    /\ GetActiveCampaign(Login(Logout(World), "testuser", "password123"))
          = GetActiveCampaign(World)
    /\ GetLoggedInUser(Login(Logout(World), "testuser", "password123"))
          = [username |-> "testuser"]

\* login(username, password) with the credentials of a stored user while
\* the write of the marker fails: the listeners are told the user, login
\* returns true, and getLoggedInUser returns what it returned before.
ReportsSuccessUnstored(w, user) ==
    LET after == Login([w EXCEPT !.quota = TRUE], user.username, user.password)
        marker == [username |-> user.username]
    IN /\ after.ret = TRUE
       /\ Notifications(after) = << <<"controller", marker>>, <<"router", marker>> >>
       /\ after.store = w.store
       /\ GetLoggedInUser(after) = GetLoggedInUser(w)

\* The screens login and handleLogin leave then.
ScreensAfterUnstored(w, user) ==
    {Login([w EXCEPT !.quota = TRUE], user.username, user.password).visible,
     HandleLogin([w EXCEPT !.quota = TRUE], user.username, user.password).visible}

\* C29 as stated: when the write of the marker fails, login with correct
\* credentials still notifies the subscribers with the user and returns true
\* while getLoggedInUser returns the previous value, and the router's
\* navigation to the dashboard ends on the login screen.
C29_UnstoredLoginEndsOnLogin ==
    \A i \in DOMAIN GetUsers(World) :
        /\ ReportsSuccessUnstored(World, GetUsers(World)[i])
        /\ ScreensAfterUnstored(World, GetUsers(World)[i]) = {{"login-screen"}}

\* C29 amended: the same, but the navigation ends on the login screen when
\* no marker was stored before the login, and on the dashboard, under the
\* marker of the previous login, when one was.
C29_UnstoredLoginFollowsOldMarker ==
    \A i \in DOMAIN GetUsers(World) :
        /\ ReportsSuccessUnstored(World, GetUsers(World)[i])
        /\ ScreensAfterUnstored(World, GetUsers(World)[i]) =
              IF GetLoggedInUser(World) = Null
              THEN {{"login-screen"}}
              ELSE {{"dashboard-screen", "main-app-content"}}

\* alice logged in through the form while the storage had no room and no
\* marker was stored: login told the listeners and succeeded, no marker is
\* stored and the login screen is shown.
C29_Witness ==
    /\ lastOp.op = "handleLoginStorageFull"
    /\ lastOp.args = <<"alice", "pw">>
    /\ Notifications([events |-> events]) =
          << <<"controller", [username |-> "alice"]>>,
             <<"router", [username |-> "alice"]>> >>
    /\ GetLoggedInUser(World) = Null
    /\ visible = {"login-screen"}
    /\ EventsOfKind([events |-> events], "login-error") = {}

\* w with the campaign `other` of its store activated by another tab.
ActivatedElsewhere(w, other) ==
    [w EXCEPT !.store = SetActiveCampaign(w, other).store]

\* An editor's save in w, whose editor was loaded from the campaign with the
\* id `from`, after another tab activated `other`: the asset goes to the
\* record of `other`, the record of `from` stays.
SavedIntoActive(w, from, other, saved, assetType, asset) ==
    /\ GetActiveCampaign(saved).id = other.id
    /\ GetItem(saved, CAMPAIGN_PREFIX \o other.id).assets[assetType] = asset
    /\ GetActiveCampaign(saved).assets[assetType] = asset
    /\ GetItem(saved, CAMPAIGN_PREFIX \o from) = GetItem(w, CAMPAIGN_PREFIX \o from)

\* C30: an editor's save writes the form's fields into the campaign the
\* shared active pointer names when it saves, not the one the editor was
\* loaded from: when another tab activated another campaign since the load,
\* the save stores this tab's fields in that campaign's record and leaves the
\* record of the campaign the editor was loaded from as it was.
C30_SaveFollowsSharedPointer ==
    /\ (tabs[1].pc = "idle" /\ tabs[1].loaded # Null) =>
          \A k \in CampaignKeys(World) :
              LET other == GetItem(World, k)
                  w == ActivatedElsewhere(TabWorld(1), other)
              IN other.id # tabs[1].loaded.id =>
                    SavedIntoActive(w, tabs[1].loaded.id, other, SaveBanner(w),
                                    "banner", BannerData(TabWorld(1)))
    /\ GetActiveCampaign(World) # Null =>
          \A k \in CampaignKeys(World) :
              LET other == GetItem(World, k)
                  from == GetActiveCampaign(World).id
                  w == ActivatedElsewhere(World, other)
              IN other.id # from =>
                    /\ SavedIntoActive(w, from, other, MarketingSavePage(w),
                                       "marketingPage", MarketingPageData(World))
                    /\ SavedIntoActive(w, from, other, LandingSavePage(w),
                                       "landingPage", LandingPageData(World))
    /\ (lastOp = [op |-> "tabWritePointer", args |-> <<1>>] /\ tabs[1].loaded # Null) =>
          /\ GetActiveCampaign(World).id = tabs[1].updated.id
          /\ GetItem(World, CAMPAIGN_PREFIX \o tabs[1].updated.id).assets.banner
                = BannerData(TabWorld(1))

\* Tab 1 loaded its editor from one campaign, the page activated the other,
\* the tab typed and saved: the text is in the record of the other campaign
\* and the campaign the editor was loaded from has no banner.
C30_Witness ==
    /\ lastOp = [op |-> "tabWritePointer", args |-> <<1>>]
    /\ tabs[1].loaded # Null
    /\ tabs[1].updated.id # tabs[1].loaded.id
    /\ tabs[1].form.text = "Tab one"
    /\ GetItem(World, CAMPAIGN_PREFIX \o tabs[1].updated.id).assets.banner.text = "Tab one"
    /\ GetItem(World, CAMPAIGN_PREFIX \o tabs[1].loaded.id).assets.banner = Null
    /\ GetActiveCampaign(World).id = tabs[1].updated.id

====
